---- MODULE Spec2Model ----
(***************************************************************************)
(* Model of google.genai's transport core and live session.                *)
(*                                                                         *)
(*  Credential manager: BaseApiClient._access_token (threads, no lock)     *)
(*  and BaseApiClient._async_access_token (coroutines, asyncio.Lock).      *)
(*  Live session: AsyncLive.connect, AsyncSession.receive / start_stream / *)
(*  send_client_content.                                                   *)
(***************************************************************************)
EXTENDS Integers, Sequences, FiniteSets, TLC

\* ------------------------------------------------------------------ bounds
NumCallers == 2
MaxExpiries == 1
MaxBodySends == 2
MaxFrames == 3
MaxChunks == 2
MaxReceiveCalls == 2
MaxContentCalls == 2
MaxSendCalls == 2
ChunkSize == 2
MaxBlocks == 4
MaxPolls == 55
MaxRequests == 3
MaxLines == 3
MaxItems == 2

Callers == 1..NumCallers

\* ------------------------------------------------- credential manager state
VARIABLES
  creds,        \* heap of google.auth Credentials objects: Seq of [token, expired]
  credentials,  \* self._credentials: index into creds, 0 = None
  project,      \* self.project: "none" or a project id
  authLocked,   \* asyncio.Lock._locked of self._auth_lock
  authWaiters,  \* asyncio.Lock._waiters of self._auth_lock (FIFO)
  pc,           \* position of each caller of _access_token/_async_access_token
  target,       \* per caller: the credentials object handed to _refresh_auth
  outcome,      \* per caller: how its _refresh_auth thread ended
  result,       \* per caller: what the call returned or raised
  waited,       \* per caller: it was suspended behind the lock
  nextTok,      \* next token value the auth backend will issue
  expiries,     \* number of times a token passed its expiry
  loadCount,    \* number of _load_auth calls started
  refreshCount, \* number of _refresh_auth calls started
  badAuth,      \* some load/refresh raised or produced an empty token
  initCred,     \* the credentials index the client was constructed with
  initNeeds     \* that credential was expired or had an empty token

authVars == <<creds, credentials, project, authLocked, authWaiters, pc, target,
              outcome, result, waited, nextTok, expiries, loadCount,
              refreshCount, badAuth, initCred, initNeeds>>

\* ------------------------------------------------------ live connect state
VARIABLES
  useApiKey,    \* self._api_client.api_key is set (else bearer token is used)
  cpc,          \* position of the AsyncLive.connect generator
  socks,        \* sockets opened by connect: Seq of [open, sent, got]
  handed,       \* number of AsyncSession objects handed to the caller
  cerr,         \* the error the connect call ended with ("" = none)
  everYielded,  \* the generator has yielded a session before
  hsFailed,     \* index of a socket whose handshake failed (0 = none)
  bodySends     \* frames the caller's block has sent on its session

connVars == <<useApiKey, cpc, socks, handed, cerr, everYielded, hsFailed,
              bodySends>>

\* ------------------------------------------------------ live session state
VARIABLES
  vertexai,     \* self._api_client.vertexai
  mode,         \* how the caller consumes the session: "receive" or "stream"
  inbox,        \* server frames that arrived and were not yet read by recv()
  serverLog,    \* every frame the server sent, in order
  peer,         \* "up", or "dropped" once the connection is lost
  wsOpen,       \* the client has not closed the socket
  dropInFlight, \* the connection dropped while a receive was in flight
  wire,         \* frames written by the client, in order
  rpc,          \* position of the current receive() generator
  rerr,         \* the error the current receive() generator raised
  calls,        \* receive() calls so far: Seq of [start, msgs, how]
  chunks,       \* start_stream: the input byte sequence (chunk ids)
  sendIdx,      \* start_stream: chunks taken by _send_loop
  sendTask,     \* start_stream: state of the _send_loop task
  stopEvent,    \* start_stream: stop_event.is_set()
  gpc,          \* start_stream: position of the generator
  gerr,         \* start_stream: the error the generator raised
  recvTask,     \* start_stream: state of the current recv_task
  recvVal,      \* start_stream: result or exception of the current recv_task
  yielded       \* start_stream: messages handed to the consumer

sessVars == <<vertexai, mode, inbox, serverLog, peer, wsOpen, dropInFlight,
              wire, rpc, rerr,
              calls, chunks, sendIdx, sendTask, stopEvent, gpc, gerr, recvTask,
              recvVal, yielded>>

\* ------------------------------------------------- send_client_content log
VARIABLES
  contentCalls, \* send_client_content calls so far: Seq of [turns,
                \* turn_complete, how]
  sendCalls     \* send / send_tool_response calls so far: Seq of [api,
                \* input, how]

contentVars == <<contentCalls, sendCalls>>

\* ---------------------------------------------------- chunked upload state
VARIABLES
  uAsync,       \* TRUE for _async_upload_fd, FALSE for _upload_fd
  fileSize,     \* bytes the file object holds
  uploadSize,   \* upload_size, the size declared when the upload was started
  offset,       \* offset
  posts,        \* block POSTs so far: Seq of [command, offset, clen, body,
                \* status]
  upc,          \* "loop", "returned" or "raised"
  uerr,         \* the error raised
  syncRun,      \* _upload_fd and _async_upload_fd run side by side on one
  asyncRun      \* file and one server: [offset, posts, upc, uerr] each

uploadVars == <<uAsync, fileSize, uploadSize, offset, posts, upc, uerr,
                syncRun, asyncRun>>

\* ------------------------------------------------- operation poller state
VARIABLES
  struct,       \* the payload given to t_resolve_operation
  operation,    \* operation, the last-seen handle
  totalSeconds, \* total_seconds
  delaySeconds, \* delay_seconds
  elapsed,      \* time slept since polling began
  fetches,      \* GET requests so far: Seq of [at, outcome, slept]
  ppc,          \* "start", "loop", "returned" or "raised"
  pret,         \* what the call returned
  perr          \* the error the call raised: [kind, val]

pollVars == <<struct, operation, totalSeconds, delaySeconds, elapsed, fetches,
              ppc, pret, perr>>

\* ------------------------------------------------- request envelope state
VARIABLES
  bearer,       \* self.vertexai and not self.api_key
  quotaProject, \* self._credentials.quota_project_id is set
  heap,         \* header dicts by identity: Seq of sets of header names;
                \* heap[1] is self._http_options.headers
  reqs,         \* HttpRequest objects built so far: Seq of [ref, sent]
  liveHeaders   \* 0, or the dict connect has taken as its headers

reqVars == <<bearer, quotaProject, heap, reqs, liveHeaders>>

\* ---------------------------------------------------- option patch state
VARIABLES
  options,      \* the HttpOptions the next patch starts from
  patchBase,    \* options argument of the last _patch_http_options call
  patchWith     \* patch_options argument of the last call

patchVars == <<options, patchBase, patchWith>>

\* --------------------------------------------------- URL composition state
VARIABLES
  urlClient,    \* the client: [vertexai, api_key, base_url, api_version]
  urlCall,      \* arguments of the last _build_request: [method, path]
  urlOut        \* its outcome: [err, url]

urlVars == <<urlClient, urlCall, urlOut>>

\* ------------------------------------------------ client construction state
VARIABLES
  ctorArgs,     \* arguments and environment of BaseApiClient(...)
  ctorOut       \* outcome of the constructor

ctorVars == <<ctorArgs, ctorOut>>

\* ------------------------------------------------- streaming decoder state
VARIABLES
  segMode,      \* what response_stream is: "list", "None", "lines" (an
                \* httpx response) or "other"
  segAsync,     \* TRUE for async_segments, FALSE for segments
  segLines,     \* the lines the response stream delivers
  segPos,       \* lines consumed by segments()
  segOut,       \* values yielded so far
  segErr        \* the error the generator raised

segVars == <<segMode, segAsync, segLines, segPos, segOut, segErr>>

\* ---------------------------------------------- live message encoder state
VARIABLES
  parseIn,      \* arguments of the last _parse_client_message call
  parseOut      \* its outcome: [err, msg]

parseVars == <<parseIn, parseOut>>

\* ------------------------------------------------ payload transformer state
VARIABLES
  nameIn,       \* arguments of the last _resource_name call
  nameOut,      \* the name it returned
  schemaIn,     \* arguments of the last process_schema call
  schemaOut     \* [once, twice]: its result, and its result on that result

xfVars == <<nameIn, nameOut, schemaIn, schemaOut>>

fnVars == <<patchVars, urlVars, ctorVars, segVars, parseVars, xfVars>>

\* State of the HTTP helpers, which the credential, connect and session
\* operations do not touch.
restVars == <<uploadVars, pollVars, reqVars, fnVars>>

nonAuthVars == <<connVars, sessVars, contentVars, restVars>>
nonConnVars == <<authVars, sessVars, contentVars, restVars>>
nonSessVars == <<authVars, connVars, contentVars, restVars>>
liveVars == <<authVars, connVars, sessVars, contentVars>>

vars == <<authVars, connVars, sessVars, contentVars, restVars>>

NoResult == [kind |-> "none", tok |-> 0, err |-> ""]
Returned(tok) == [kind |-> "token", tok |-> tok, err |-> ""]
Raised(e) == [kind |-> "error", tok |-> 0, err |-> e]

\* `self._credentials.expired or not self._credentials.token`
NeedsRefresh(o) == o.expired \/ o.token = 0

LockAlwaysFree(locked, waiters) == TRUE

\* asyncio.Lock.acquire takes the lock without suspending only when it is
\* unlocked and nobody is queued.
LockFree(locked, waiters) == ~locked /\ waiters = <<>>

AuthInit ==
  /\ credentials \in {0, 1}
  /\ \E tk \in {0, 1}, ex \in BOOLEAN :
        creds = IF credentials = 0 THEN <<>>
                ELSE <<[token |-> tk, expired |-> ex]>>
  /\ project \in {"none", "p"}
  /\ authLocked = FALSE
  /\ authWaiters = <<>>
  /\ pc = [c \in Callers |-> "idle"]
  /\ target = [c \in Callers |-> 0]
  /\ outcome = [c \in Callers |-> "none"]
  /\ result = [c \in Callers |-> NoResult]
  /\ waited = [c \in Callers |-> FALSE]
  /\ nextTok = 2
  /\ expiries = 0
  /\ loadCount = 0
  /\ refreshCount = 0
  /\ badAuth = FALSE
  /\ initCred = credentials
  /\ initNeeds = (credentials # 0 /\ NeedsRefresh(creds[1]))

\* A client on which no token is requested.
AuthQuiet ==
  /\ credentials = 0 /\ creds = <<>> /\ project = "p"
  /\ authLocked = FALSE /\ authWaiters = <<>>
  /\ pc = [c \in Callers |-> "idle"]
  /\ target = [c \in Callers |-> 0]
  /\ outcome = [c \in Callers |-> "none"]
  /\ result = [c \in Callers |-> NoResult]
  /\ waited = [c \in Callers |-> FALSE]
  /\ nextTok = 2 /\ expiries = 0 /\ loadCount = 0 /\ refreshCount = 0
  /\ badAuth = FALSE /\ initCred = 0 /\ initNeeds = FALSE

\* A client on which connect has not been called.
ConnQuiet ==
  /\ useApiKey = TRUE /\ cpc = "init" /\ socks = <<>> /\ handed = 0
  /\ cerr = "" /\ everYielded = FALSE /\ hsFailed = 0 /\ bodySends = 0

\* No live session in use.
SessQuiet ==
  /\ vertexai = FALSE /\ mode = "receive" /\ inbox = <<>> /\ serverLog = <<>>
  /\ peer = "up" /\ wsOpen = TRUE /\ dropInFlight = FALSE
  /\ wire = <<>> /\ rpc = "none" /\ rerr = ""
  /\ calls = <<>> /\ chunks = <<>> /\ sendIdx = 0 /\ sendTask = "none"
  /\ stopEvent = FALSE /\ gpc = "none" /\ gerr = "" /\ recvTask = "none"
  /\ recvVal = [err |-> "", id |-> 0,
                server_content |-> [present |-> FALSE, turn_complete |-> "none"],
                tool_call |-> FALSE]
  /\ yielded = <<>>

ContentQuiet == contentCalls = <<>> /\ sendCalls = <<>>

UploadQuiet ==
  /\ uAsync = FALSE /\ fileSize = 0 /\ uploadSize = 0 /\ offset = 0
  /\ posts = <<>> /\ upc = "none" /\ uerr = ""
  /\ syncRun = "none" /\ asyncRun = "none"

NoHandle == [hasName |-> FALSE, name |-> <<>>, done |-> "absent",
             error |-> "absent", response |-> "absent"]
NoValue == [kind |-> "none", payload |-> NoHandle, response |-> "absent"]
NoError == [kind |-> "", val |-> NoHandle]

PollQuiet ==
  /\ struct = NoHandle /\ operation = NoHandle
  /\ totalSeconds = 0 /\ delaySeconds = 0 /\ elapsed = 0 /\ fetches = <<>>
  /\ ppc = "none" /\ pret = NoValue /\ perr = NoError

ReqQuiet ==
  /\ bearer = FALSE /\ quotaProject = FALSE /\ heap = <<>> /\ reqs = <<>>
  /\ liveHeaders = 0

PatchQuiet == options = "none" /\ patchBase = "none" /\ patchWith = "none"

UrlQuiet == urlClient = "none" /\ urlCall = "none" /\ urlOut = "none"

CtorQuiet == ctorArgs = "none" /\ ctorOut = "none"

SegQuiet ==
  /\ segMode = "None" /\ segAsync = FALSE
  /\ segLines = <<>> /\ segPos = 0 /\ segOut = <<>> /\ segErr = ""

ParseQuiet == parseIn = "none" /\ parseOut = "none"

XfQuiet ==
  /\ nameIn = "none" /\ nameOut = "none"
  /\ schemaIn = "none" /\ schemaOut = "none"

FnQuiet ==
  PatchQuiet /\ UrlQuiet /\ CtorQuiet /\ SegQuiet /\ ParseQuiet /\ XfQuiet

RestQuiet == UploadQuiet /\ PollQuiet /\ ReqQuiet /\ FnQuiet

InitAuth == AuthInit /\ ConnQuiet /\ SessQuiet /\ ContentQuiet /\ RestQuiet

\* ---------------------------------------------------------- auth backend
\* google.auth.default(): a new Credentials object, usually without a token
\* ("creds.valid is False, and creds.token is None", live.py) or carrying one.
LoadedCreds == {[token |-> 0, expired |-> FALSE],
                [token |-> nextTok, expired |-> FALSE]}

\* Ambient project id reported by google.auth.default().
AmbientProjects == {"none", "adc"}

\* _load_auth: outcomes of one call with the given project argument.
\* A record with err = "" is a successful return.
LoadAuth(proj) ==
  {[err |-> "DefaultCredentialsError", cred |-> [token |-> 0, expired |-> FALSE],
    project |-> proj]}
  \cup
  {[err |-> IF proj = "none" /\ amb = "none" THEN "ValueError" ELSE "",
    cred |-> cr,
    project |-> IF proj = "none" THEN amb ELSE proj]
     : cr \in LoadedCreds, amb \in AmbientProjects}

\* _refresh_auth: credentials.refresh(Request()) either installs a new
\* unexpired token, leaves the token empty, or raises.
RefreshOutcomes == {"fresh", "empty", "RefreshError"}

RefreshAuth(o, how) ==
  CASE how = "fresh" -> [token |-> nextTok, expired |-> FALSE]
    [] how = "empty" -> [token |-> 0, expired |-> FALSE]
    [] OTHER -> o

\* Time passes: a credential holding a token reaches its expiry.
Expire ==
  /\ expiries < MaxExpiries
  /\ \E i \in 1..Len(creds) :
       /\ creds[i].token # 0 /\ ~creds[i].expired
       /\ creds' = [creds EXCEPT ![i].expired = TRUE]
  /\ expiries' = expiries + 1
  /\ UNCHANGED <<credentials, project, authLocked, authWaiters, pc, target,
                 outcome, result, waited, nextTok, loadCount, refreshCount,
                 badAuth, initCred, initNeeds>>
  /\ UNCHANGED nonAuthVars

\* ------------------------------------ _async_access_token (one event loop)
\* The tail of _async_access_token from `if self._credentials:` on, run by
\* caller c without suspension against credentials index cr, heap h and lock
\* state (lk, w).  It either starts the refresh thread, queues behind the
\* lock, returns the token or raises.
AsyncTail(c, cr, h, lk, w) ==
  IF cr = 0
  THEN /\ result' = [result EXCEPT ![c] = Raised("RuntimeError")]
       /\ pc' = [pc EXCEPT ![c] = "done"]
       /\ authLocked' = lk /\ authWaiters' = w
       /\ UNCHANGED <<target, refreshCount, waited>>
  ELSE IF NeedsRefresh(h[cr])
  THEN IF LockFree(lk, w)
       THEN \* lock taken at once; the double check sees the same state
            /\ authLocked' = TRUE /\ authWaiters' = w
            /\ pc' = [pc EXCEPT ![c] = "refreshing"]
            /\ target' = [target EXCEPT ![c] = cr]
            /\ refreshCount' = refreshCount + 1
            /\ UNCHANGED <<result, waited>>
       ELSE /\ authLocked' = lk /\ authWaiters' = Append(w, c)
            /\ pc' = [pc EXCEPT ![c] = "waitRefreshLock"]
            /\ waited' = [waited EXCEPT ![c] = TRUE]
            /\ UNCHANGED <<result, target, refreshCount>>
  ELSE /\ result' = [result EXCEPT ![c] =
                       IF h[cr].token = 0 THEN Raised("RuntimeError")
                       ELSE Returned(h[cr].token)]
       /\ pc' = [pc EXCEPT ![c] = "done"]
       /\ authLocked' = lk /\ authWaiters' = w
       /\ UNCHANGED <<target, refreshCount, waited>>

\* Entry of _async_access_token up to its first suspension.
AsyncCall(c) ==
  /\ pc[c] = "idle"
  /\ IF credentials = 0
     THEN /\ IF LockFree(authLocked, authWaiters)
             THEN /\ authLocked' = TRUE
                  /\ pc' = [pc EXCEPT ![c] = "loading"]
                  /\ loadCount' = loadCount + 1
                  /\ UNCHANGED <<authWaiters, waited>>
             ELSE /\ authWaiters' = Append(authWaiters, c)
                  /\ pc' = [pc EXCEPT ![c] = "waitLoadLock"]
                  /\ waited' = [waited EXCEPT ![c] = TRUE]
                  /\ UNCHANGED <<authLocked, loadCount>>
          /\ UNCHANGED <<target, result, refreshCount>>
     ELSE /\ AsyncTail(c, credentials, creds, authLocked, authWaiters)
          /\ UNCHANGED loadCount
  /\ UNCHANGED <<creds, credentials, project, outcome, nextTok, expiries,
                 badAuth, initCred, initNeeds>>
  /\ UNCHANGED nonAuthVars

\* The first `async with self._auth_lock` is granted to a queued caller.
LoadLockGranted(c) ==
  /\ pc[c] = "waitLoadLock"
  /\ ~authLocked /\ authWaiters # <<>> /\ Head(authWaiters) = c
  /\ IF credentials = 0
     THEN /\ authLocked' = TRUE
          /\ authWaiters' = Tail(authWaiters)
          /\ pc' = [pc EXCEPT ![c] = "loading"]
          /\ loadCount' = loadCount + 1
          /\ UNCHANGED <<target, result, refreshCount, waited>>
     ELSE \* nothing to load: the lock is released again and the tail runs
          /\ AsyncTail(c, credentials, creds, FALSE, Tail(authWaiters))
          /\ UNCHANGED loadCount
  /\ UNCHANGED <<creds, credentials, project, outcome, nextTok, expiries,
                 badAuth, initCred, initNeeds>>
  /\ UNCHANGED nonAuthVars

\* The _load_auth thread finished and the caller resumes.
LoadDone(c) ==
  /\ pc[c] = "loading"
  /\ \E r \in LoadAuth(project) :
       IF r.err # ""
       THEN /\ result' = [result EXCEPT ![c] = Raised(r.err)]
            /\ pc' = [pc EXCEPT ![c] = "done"]
            /\ authLocked' = FALSE
            /\ badAuth' = TRUE
            /\ UNCHANGED <<creds, credentials, project, authWaiters, target,
                           refreshCount, waited, nextTok>>
       ELSE /\ creds' = Append(creds, r.cred)
            /\ credentials' = Len(creds) + 1
            /\ project' = IF project = "none" THEN r.project ELSE project
            /\ nextTok' = IF r.cred.token = 0 THEN nextTok ELSE nextTok + 1
            /\ AsyncTail(c, Len(creds) + 1, Append(creds, r.cred), FALSE,
                         authWaiters)
            /\ UNCHANGED badAuth
  /\ UNCHANGED <<outcome, expiries, loadCount, initCred, initNeeds>>
  /\ UNCHANGED nonAuthVars

\* The _refresh_auth thread finished: the credentials object is mutated
\* while the awaiting caller has not yet resumed.
RefreshThreadDone(c) ==
  /\ pc[c] = "refreshing"
  /\ \E how \in RefreshOutcomes :
       /\ creds' = [creds EXCEPT ![target[c]] = RefreshAuth(@, how)]
       /\ outcome' = [outcome EXCEPT ![c] = how]
       /\ nextTok' = IF how = "fresh" THEN nextTok + 1 ELSE nextTok
       /\ badAuth' = (badAuth \/ how # "fresh")
  /\ pc' = [pc EXCEPT ![c] = "refreshed"]
  /\ UNCHANGED <<credentials, project, authLocked, authWaiters, target, result,
                 waited, expiries, loadCount, refreshCount, initCred, initNeeds>>
  /\ UNCHANGED nonAuthVars

\* The caller resumes after `await asyncio.to_thread(_refresh_auth, ...)`:
\* the lock is released, then the token is checked and returned.
RefreshResume(c) ==
  /\ pc[c] = "refreshed"
  /\ authLocked' = FALSE
  /\ result' = [result EXCEPT ![c] =
                  IF outcome[c] = "RefreshError" THEN Raised("RefreshError")
                  ELSE IF creds[credentials].token = 0
                       THEN Raised("RuntimeError")
                       ELSE Returned(creds[credentials].token)]
  /\ pc' = [pc EXCEPT ![c] = "done"]
  /\ UNCHANGED <<creds, credentials, project, authWaiters, target, outcome,
                 waited, nextTok, expiries, loadCount, refreshCount, badAuth,
                 initCred, initNeeds>>
  /\ UNCHANGED nonAuthVars

RecheckSkipped(o) == TRUE

\* The double check made once the second `async with self._auth_lock` is
\* entered.
RecheckNeedsRefresh(o) == NeedsRefresh(o)

\* The second `async with self._auth_lock` is granted to a queued caller.
RefreshLockGranted(c) ==
  /\ pc[c] = "waitRefreshLock"
  /\ ~authLocked /\ authWaiters # <<>> /\ Head(authWaiters) = c
  /\ authWaiters' = Tail(authWaiters)
  /\ IF RecheckNeedsRefresh(creds[credentials])
     THEN /\ authLocked' = TRUE
          /\ pc' = [pc EXCEPT ![c] = "refreshing"]
          /\ target' = [target EXCEPT ![c] = credentials]
          /\ refreshCount' = refreshCount + 1
          /\ UNCHANGED result
     ELSE /\ authLocked' = FALSE
          /\ result' = [result EXCEPT ![c] =
                          IF creds[credentials].token = 0
                          THEN Raised("RuntimeError")
                          ELSE Returned(creds[credentials].token)]
          /\ pc' = [pc EXCEPT ![c] = "done"]
          /\ UNCHANGED <<target, refreshCount>>
  /\ UNCHANGED <<creds, credentials, project, outcome, waited, nextTok,
                 expiries, loadCount, badAuth, initCred, initNeeds>>
  /\ UNCHANGED nonAuthVars

NextAsyncAuth ==
  \/ \E c \in Callers : AsyncCall(c)
  \/ \E c \in Callers : LoadLockGranted(c)
  \/ \E c \in Callers : LoadDone(c)
  \/ \E c \in Callers : RefreshThreadDone(c)
  \/ \E c \in Callers : RefreshResume(c)
  \/ \E c \in Callers : RefreshLockGranted(c)
  \/ Expire

SpecAsyncAuth == InitAuth /\ [][NextAsyncAuth]_vars

InFlight == {c \in Callers : pc[c] \in {"loading", "refreshing", "s_loading", "s_refreshing"}}

\* -------------------------------------------- _access_token (OS threads)
\* The blocking variant takes no lock; every read of self._credentials is a
\* point where another thread may run.
HistUnchanged == UNCHANGED <<expiries, initCred, initNeeds, waited,
                             authLocked, authWaiters, nonAuthVars>>

\* `if not self._credentials:` -- either _load_auth is called or the method
\* goes on to `if self._credentials:`.
SyncCall(t) ==
  /\ pc[t] = "idle"
  /\ IF credentials = 0
     THEN /\ pc' = [pc EXCEPT ![t] = "s_loading"]
          /\ loadCount' = loadCount + 1
     ELSE /\ pc' = [pc EXCEPT ![t] = "s_check"]
          /\ UNCHANGED loadCount
  /\ UNCHANGED <<creds, credentials, project, target, outcome, result,
                 nextTok, refreshCount, badAuth>>
  /\ HistUnchanged

\* _load_auth returns (or raises) and `self._credentials, project = ...`
\* stores the new object.
SyncLoadDone(t) ==
  /\ pc[t] = "s_loading"
  /\ \E r \in LoadAuth(project) :
       IF r.err # ""
       THEN /\ result' = [result EXCEPT ![t] = Raised(r.err)]
            /\ pc' = [pc EXCEPT ![t] = "done"]
            /\ badAuth' = TRUE
            /\ UNCHANGED <<creds, credentials, project, nextTok>>
       ELSE /\ creds' = Append(creds, r.cred)
            /\ credentials' = Len(creds) + 1
            /\ project' = IF project = "none" THEN r.project ELSE project
            /\ nextTok' = IF r.cred.token = 0 THEN nextTok ELSE nextTok + 1
            /\ pc' = [pc EXCEPT ![t] = "s_check"]
            /\ UNCHANGED <<result, badAuth>>
  /\ UNCHANGED <<target, outcome, loadCount, refreshCount>>
  /\ HistUnchanged

\* `if self._credentials:` and `if self._credentials.expired or not
\* self._credentials.token:` -- _refresh_auth(self._credentials) is called
\* when the credential needs it.
SyncCheck(t) ==
  /\ pc[t] = "s_check"
  /\ IF credentials = 0
     THEN /\ result' = [result EXCEPT ![t] = Raised("RuntimeError")]
          /\ pc' = [pc EXCEPT ![t] = "done"]
          /\ UNCHANGED <<target, refreshCount>>
     ELSE IF NeedsRefresh(creds[credentials])
     THEN /\ pc' = [pc EXCEPT ![t] = "s_refreshing"]
          /\ target' = [target EXCEPT ![t] = credentials]
          /\ refreshCount' = refreshCount + 1
          /\ UNCHANGED result
     ELSE /\ pc' = [pc EXCEPT ![t] = "s_tokcheck"]
          /\ UNCHANGED <<result, target, refreshCount>>
  /\ UNCHANGED <<creds, credentials, project, outcome, nextTok, loadCount,
                 badAuth>>
  /\ HistUnchanged

\* _refresh_auth returns (or raises) on the calling thread.
SyncRefreshDone(t) ==
  /\ pc[t] = "s_refreshing"
  /\ \E how \in RefreshOutcomes :
       /\ creds' = [creds EXCEPT ![target[t]] = RefreshAuth(@, how)]
       /\ outcome' = [outcome EXCEPT ![t] = how]
       /\ nextTok' = IF how = "fresh" THEN nextTok + 1 ELSE nextTok
       /\ badAuth' = (badAuth \/ how # "fresh")
       /\ IF how = "RefreshError"
          THEN /\ result' = [result EXCEPT ![t] = Raised("RefreshError")]
               /\ pc' = [pc EXCEPT ![t] = "done"]
          ELSE /\ pc' = [pc EXCEPT ![t] = "s_tokcheck"]
               /\ UNCHANGED result
  /\ UNCHANGED <<credentials, project, target, loadCount, refreshCount>>
  /\ HistUnchanged

\* `if not self._credentials.token: raise RuntimeError(...)`
SyncTokenCheck(t) ==
  /\ pc[t] = "s_tokcheck"
  /\ IF creds[credentials].token = 0
     THEN /\ result' = [result EXCEPT ![t] = Raised("RuntimeError")]
          /\ pc' = [pc EXCEPT ![t] = "done"]
     ELSE /\ pc' = [pc EXCEPT ![t] = "s_return"]
          /\ UNCHANGED result
  /\ UNCHANGED <<creds, credentials, project, target, outcome, nextTok,
                 loadCount, refreshCount, badAuth>>
  /\ HistUnchanged

\* `return self._credentials.token`
SyncReturn(t) ==
  /\ pc[t] = "s_return"
  /\ result' = [result EXCEPT ![t] = Returned(creds[credentials].token)]
  /\ pc' = [pc EXCEPT ![t] = "done"]
  /\ UNCHANGED <<creds, credentials, project, target, outcome, nextTok,
                 loadCount, refreshCount, badAuth>>
  /\ HistUnchanged

NextSyncAuth ==
  \/ \E t \in Callers : SyncCall(t)
  \/ \E t \in Callers : SyncLoadDone(t)
  \/ \E t \in Callers : SyncCheck(t)
  \/ \E t \in Callers : SyncRefreshDone(t)
  \/ \E t \in Callers : SyncTokenCheck(t)
  \/ \E t \in Callers : SyncReturn(t)
  \/ Expire

SpecSyncAuth == InitAuth /\ [][NextSyncAuth]_vars

\* ------------------------------------------------------ AsyncLive.connect
\* The setup request: _LiveSetup_to_mldev when an API key is set, else
\* _LiveSetup_to_vertex.
SetupFrame == [kind |-> "setup", via |-> IF useApiKey THEN "mldev" ELSE "vertex"]

NewSocket == [open |-> TRUE, sent |-> <<>>, got |-> 0]

Cur == Len(socks)

\* Leaving `async with connect(...) as ws` closes that socket.
CloseCur == [socks EXCEPT ![Cur].open = FALSE]

ConnInit ==
  /\ useApiKey \in BOOLEAN
  /\ cpc = "init" /\ socks = <<>> /\ handed = 0 /\ cerr = ""
  /\ everYielded = FALSE /\ hsFailed = 0 /\ bodySends = 0

\* Token acquisition (bearer branch) and
\* `async with connect(uri, additional_headers=headers) as ws`.
\* The websockets call opens a socket, rejects the keyword (TypeError, older
\* API) or fails to connect.
ConnOpen ==
  /\ cpc = "init"
  /\ \E how \in {"ok", "TypeError", "OSError", "RefreshError"} :
       /\ how = "RefreshError" => ~useApiKey
       /\ CASE how = "ok" ->
                 /\ socks' = Append(socks, NewSocket)
                 /\ cpc' = "open1"
                 /\ UNCHANGED cerr
            [] how = "TypeError" ->
                 /\ cpc' = "fallback"
                 /\ UNCHANGED <<socks, cerr>>
            [] OTHER ->
                 /\ cpc' = "failed"
                 /\ cerr' = how
                 /\ UNCHANGED socks
  /\ UNCHANGED <<useApiKey, handed, everYielded, hsFailed, bodySends>>
  /\ UNCHANGED nonConnVars

\* `await ws.send(request)` of the first attempt.
SendSetup ==
  /\ cpc = "open1"
  /\ \E how \in {"ok", "ConnectionClosed"} :
       IF how = "ok"
       THEN /\ socks' = [socks EXCEPT ![Cur].sent = Append(@, SetupFrame)]
            /\ cpc' = "sent1"
            /\ UNCHANGED <<cerr, hsFailed>>
       ELSE /\ socks' = CloseCur
            /\ cpc' = "failed"
            /\ cerr' = how
            /\ hsFailed' = Cur
  /\ UNCHANGED <<useApiKey, handed, everYielded, bodySends>>
  /\ UNCHANGED nonConnVars

\* What the `except TypeError:` clause around the first attempt does with an
\* exception e that left the `async with` block.
OnException(e) == IF e = "TypeError" THEN "fallback" ELSE "failed"

\* `logger.info(await ws.recv(decode=False))` and the yield of the session.
\* recv(decode=False) raises TypeError on a websockets without that keyword
\* (as AsyncSession._receive expects).
RecvAck ==
  /\ cpc = "sent1"
  /\ \E how \in {"ok", "ConnectionClosed", "TypeError"} :
       IF how = "ok"
       THEN /\ socks' = [socks EXCEPT ![Cur].got = @ + 1]
            /\ cpc' = "session1"
            /\ handed' = handed + 1
            /\ everYielded' = TRUE
            /\ UNCHANGED <<cerr, hsFailed>>
       ELSE /\ socks' = CloseCur
            /\ cpc' = OnException(how)
            /\ cerr' = IF OnException(how) = "failed" THEN how ELSE cerr
            /\ hsFailed' = Cur
            /\ UNCHANGED <<handed, everYielded>>
  /\ UNCHANGED <<useApiKey, bodySends>>
  /\ UNCHANGED nonConnVars

\* The caller's block sends a frame on the session it was handed.
BodySend ==
  /\ cpc \in {"session1", "session2"}
  /\ bodySends < MaxBodySends
  /\ socks' = [socks EXCEPT ![Cur].sent = Append(@, [kind |-> "client_content",
                                                    via |-> "body"])]
  /\ bodySends' = bodySends + 1
  /\ UNCHANGED <<useApiKey, cpc, handed, cerr, everYielded, hsFailed>>
  /\ UNCHANGED nonConnVars

\* The caller's block ends, normally or by raising; asynccontextmanager
\* resumes the generator at its yield (athrow for an exception).
BodyEnd ==
  /\ cpc \in {"session1", "session2"}
  /\ socks' = CloseCur
  /\ \E how \in {"normal", "TypeError", "ValueError"} :
       IF how = "normal"
       THEN /\ cpc' = "exited" /\ UNCHANGED cerr
       ELSE IF cpc = "session1"
       THEN /\ cpc' = OnException(how)
            /\ cerr' = IF OnException(how) = "failed" THEN how ELSE cerr
       ELSE /\ cpc' = "failed" /\ cerr' = how
  /\ UNCHANGED <<useApiKey, handed, everYielded, hsFailed, bodySends>>
  /\ UNCHANGED nonConnVars

\* `except TypeError:` -- `async with connect(uri, extra_headers=headers)`.
ConnOpenLegacy ==
  /\ cpc = "fallback"
  /\ \E how \in {"ok", "TypeError", "OSError"} :
       IF how = "ok"
       THEN /\ socks' = Append(socks, NewSocket)
            /\ cpc' = "open2"
            /\ UNCHANGED cerr
       ELSE /\ cpc' = "failed"
            /\ cerr' = how
            /\ UNCHANGED socks
  /\ UNCHANGED <<useApiKey, handed, everYielded, hsFailed, bodySends>>
  /\ UNCHANGED nonConnVars

\* `await ws.send(request)` of the fallback.
SendSetupLegacy ==
  /\ cpc = "open2"
  /\ \E how \in {"ok", "ConnectionClosed"} :
       IF how = "ok"
       THEN /\ socks' = [socks EXCEPT ![Cur].sent = Append(@, SetupFrame)]
            /\ cpc' = "sent2"
            /\ UNCHANGED <<cerr, hsFailed>>
       ELSE /\ socks' = CloseCur
            /\ cpc' = "failed"
            /\ cerr' = how
            /\ hsFailed' = Cur
  /\ UNCHANGED <<useApiKey, handed, everYielded, bodySends>>
  /\ UNCHANGED nonConnVars

\* `logger.info(await ws.recv())` and the yield of the fallback.  A generator
\* that already yielded once was resumed by athrow(): its second yield makes
\* asynccontextmanager raise RuntimeError, and the generator stays suspended
\* inside the `async with`, so the socket stays open.
RecvAckLegacy ==
  /\ cpc = "sent2"
  /\ \E how \in {"ok", "ConnectionClosed"} :
       IF how = "ok"
       THEN /\ socks' = [socks EXCEPT ![Cur].got = @ + 1]
            /\ IF everYielded
               THEN /\ cpc' = "failed" /\ cerr' = "RuntimeError"
                    /\ UNCHANGED handed
               ELSE /\ cpc' = "session2" /\ handed' = handed + 1
                    /\ UNCHANGED cerr
            /\ everYielded' = TRUE
            /\ UNCHANGED hsFailed
       ELSE /\ socks' = CloseCur
            /\ cpc' = "failed"
            /\ cerr' = how
            /\ hsFailed' = Cur
            /\ UNCHANGED <<handed, everYielded>>
  /\ UNCHANGED <<useApiKey, bodySends>>
  /\ UNCHANGED nonConnVars

NextConnect ==
  \/ ConnOpen
  \/ SendSetup
  \/ RecvAck
  \/ BodySend
  \/ BodyEnd
  \/ ConnOpenLegacy
  \/ SendSetupLegacy
  \/ RecvAckLegacy

InitConnect ==
  AuthQuiet /\ ConnInit /\ SessQuiet /\ ContentQuiet /\ RestQuiet

SpecConnect == InitConnect /\ [][NextConnect]_vars

\* ----------------------------------------------------------- AsyncSession
\* Shapes of the frames a server sends: serverContent without / with true /
\* with false turnComplete, a toolCall, and text that is not JSON.
FrameKinds == {"content", "turnTrue", "turnFalse", "toolCall", "garbage"}

NoMsg == [err |-> "", id |-> 0,
          server_content |-> [present |-> FALSE, turn_complete |-> "none"],
          tool_call |-> FALSE]

\* _LiveServerContent_from_mldev / _from_vertex: turn_complete is copied when
\* turnComplete is present.
LiveServerContentFrom(f, vx) ==
  [present |-> TRUE,
   turn_complete |-> CASE f.kind = "turnTrue" -> "true"
                       [] f.kind = "turnFalse" -> "false"
                       [] OTHER -> "none"]

\* A decoder that takes text that is not JSON for an empty response.
DecodeLenient(f, vx) ==
  [err |-> "", id |-> f.id,
   server_content |->
      IF f.kind \in {"content", "turnTrue", "turnFalse"}
      THEN LiveServerContentFrom(f, vx)
      ELSE [present |-> FALSE, turn_complete |-> "none"],
   tool_call |-> (f.kind = "toolCall")]

\* AsyncSession._receive on one raw frame: json.loads (ValueError when the
\* text is not JSON, {} when it is empty), then _LiveServerMessage_from_mldev
\* or _from_vertex.
Decode(f, vx) ==
  IF f.kind = "garbage"
  THEN [NoMsg EXCEPT !.err = "ValueError", !.id = f.id]
  ELSE [err |-> "", id |-> f.id,
        server_content |->
           IF f.kind \in {"content", "turnTrue", "turnFalse"}
           THEN LiveServerContentFrom(f, vx)
           ELSE [present |-> FALSE, turn_complete |-> "none"],
        tool_call |-> (f.kind = "toolCall")]

TurnMarkPresent(m) ==
  m.server_content.present /\ m.server_content.turn_complete # "none"

\* `result.server_content and result.server_content.turn_complete`
TurnComplete(m) ==
  m.server_content.present /\ m.server_content.turn_complete = "true"

\* _parse_client_message on the LiveClientRealtimeInput built by _send_loop:
\* one realtime_input frame with the chunk as its only media chunk.
RealtimeFrame(chunk) == [kind |-> "realtime_input", chunks |-> <<chunk>>]

Consumed == Len(serverLog) - Len(inbox)

SessInit ==
  /\ vertexai \in BOOLEAN
  /\ mode \in {"receive", "stream"}
  /\ inbox = <<>> /\ serverLog = <<>> /\ peer = "up" /\ wsOpen = TRUE
  /\ dropInFlight = FALSE
  /\ wire = <<>> /\ rpc = "none" /\ rerr = "" /\ calls = <<>>
  /\ \E n \in 0..MaxChunks : chunks = [i \in 1..n |-> i]
  /\ sendIdx = 0 /\ sendTask = "none" /\ stopEvent = FALSE
  /\ gpc = "none" /\ gerr = "" /\ recvTask = "none" /\ recvVal = NoMsg
  /\ yielded = <<>>

StreamVars == <<chunks, sendIdx, sendTask, stopEvent, gpc, gerr, recvTask,
                recvVal, yielded>>
ReceiveVars == <<rpc, rerr, calls>>

\* The server sends one more frame.
ServerSend ==
  /\ peer = "up" /\ Len(serverLog) < MaxFrames
  /\ \E k \in FrameKinds :
       LET f == [id |-> Len(serverLog) + 1, kind |-> k] IN
         /\ serverLog' = Append(serverLog, f)
         /\ inbox' = Append(inbox, f)
  /\ UNCHANGED <<vertexai, mode, peer, wsOpen, dropInFlight, wire>>
  /\ UNCHANGED <<ReceiveVars, StreamVars>>
  /\ UNCHANGED nonSessVars

\* The connection drops; frames already received stay readable.
PeerDrop ==
  /\ peer = "up"
  /\ peer' = "dropped"
  /\ dropInFlight' = (rpc = "waiting" \/ recvTask = "pending")
  /\ UNCHANGED <<vertexai, mode, inbox, serverLog, wsOpen, wire>>
  /\ UNCHANGED <<ReceiveVars, StreamVars>>
  /\ UNCHANGED nonSessVars

\* ---- receive()
\* The caller starts a receive() call and pulls: the generator awaits
\* self._receive().
ReceiveCall ==
  /\ mode = "receive"
  /\ rpc \in {"none", "ended", "raised"}
  /\ Len(calls) < MaxReceiveCalls
  /\ calls' = Append(calls, [start |-> Consumed, msgs |-> <<>>, how |-> "open"])
  /\ rpc' = "waiting"
  /\ rerr' = ""
  /\ UNCHANGED <<vertexai, mode, inbox, serverLog, peer, wsOpen, dropInFlight,
                 wire>>
  /\ UNCHANGED StreamVars
  /\ UNCHANGED nonSessVars

\* self._receive() returns a frame: the message is yielded, or the decoding
\* error leaves the generator.
ReceiveFrame ==
  /\ rpc = "waiting" /\ inbox # <<>>
  /\ inbox' = Tail(inbox)
  /\ LET m == Decode(Head(inbox), vertexai)
         k == Len(calls) IN
       IF m.err # ""
       THEN /\ rpc' = "raised" /\ rerr' = m.err
            /\ calls' = [calls EXCEPT ![k].how = m.err]
       ELSE /\ rpc' = "yielded" /\ UNCHANGED rerr
            /\ calls' = [calls EXCEPT ![k].msgs = Append(@, m)]
  /\ UNCHANGED <<vertexai, mode, serverLog, peer, wsOpen, dropInFlight, wire>>
  /\ UNCHANGED StreamVars
  /\ UNCHANGED nonSessVars

\* self._receive() finds the connection closed: ConnectionClosed leaves the
\* generator.
ReceiveClosed ==
  /\ rpc = "waiting" /\ inbox = <<>> /\ peer = "dropped"
  /\ rpc' = "raised" /\ rerr' = "ConnectionClosed"
  /\ calls' = [calls EXCEPT ![Len(calls)].how = "ConnectionClosed"]
  /\ UNCHANGED <<vertexai, mode, inbox, serverLog, peer, wsOpen, dropInFlight,
                 wire>>
  /\ UNCHANGED StreamVars
  /\ UNCHANGED nonSessVars

\* The consumer pulls again: after a turn_complete message the generator
\* breaks out of its loop, otherwise it awaits self._receive() again.
ReceivePull ==
  /\ rpc = "yielded"
  /\ LET k == Len(calls)
         last == calls[k].msgs[Len(calls[k].msgs)] IN
       IF TurnComplete(last)
       THEN /\ rpc' = "ended"
            /\ calls' = [calls EXCEPT ![k].how = "ended"]
       ELSE /\ rpc' = "waiting"
            /\ UNCHANGED calls
  /\ UNCHANGED <<vertexai, mode, inbox, serverLog, peer, wsOpen, dropInFlight,
                 wire, rerr>>
  /\ UNCHANGED StreamVars
  /\ UNCHANGED nonSessVars

\* ---- start_stream()
SessFrame == UNCHANGED <<vertexai, mode, serverLog, peer, wsOpen, dropInFlight>>

\* The consumer starts start_stream and pulls: stop_event and the _send_loop
\* task are created, the first recv_task is created and the generator waits
\* in asyncio.wait.
StreamStart ==
  /\ mode = "stream" /\ gpc = "none"
  /\ sendTask' = "running"
  /\ recvTask' = "pending"
  /\ gpc' = "waiting"
  /\ UNCHANGED <<chunks, sendIdx, stopEvent, gerr, recvVal, yielded>>
  /\ UNCHANGED <<inbox, wire>> /\ SessFrame
  /\ UNCHANGED ReceiveVars
  /\ UNCHANGED nonSessVars

\* _send_loop takes the next chunk and sends it with self.send; on a lost
\* connection ws.send raises and the task dies without setting stop_event.
SendChunk ==
  /\ sendTask = "running" /\ sendIdx < Len(chunks)
  /\ sendIdx' = sendIdx + 1
  /\ IF peer = "up" /\ wsOpen
     THEN /\ wire' = Append(wire, RealtimeFrame(chunks[sendIdx + 1]))
          /\ UNCHANGED sendTask
     ELSE /\ sendTask' = "failed"
          /\ UNCHANGED wire
  /\ UNCHANGED <<chunks, stopEvent, gpc, gerr, recvTask, recvVal, yielded>>
  /\ UNCHANGED inbox /\ SessFrame
  /\ UNCHANGED ReceiveVars
  /\ UNCHANGED nonSessVars

\* The input is exhausted: stop_event.set().
SendFinish ==
  /\ sendTask = "running" /\ sendIdx = Len(chunks)
  /\ stopEvent' = TRUE
  /\ sendTask' = "finished"
  /\ UNCHANGED <<chunks, sendIdx, gpc, gerr, recvTask, recvVal, yielded>>
  /\ UNCHANGED <<inbox, wire>> /\ SessFrame
  /\ UNCHANGED ReceiveVars
  /\ UNCHANGED nonSessVars

\* The recv_task (self._receive()) completes with a message or an exception.
RecvTaskStep ==
  /\ recvTask = "pending"
  /\ \/ /\ inbox # <<>>
        /\ inbox' = Tail(inbox)
        /\ LET m == Decode(Head(inbox), vertexai) IN
             /\ recvVal' = m
             /\ recvTask' = IF m.err # "" THEN "failed" ELSE "done"
     \/ /\ inbox = <<>> /\ peer = "dropped"
        /\ recvVal' = [NoMsg EXCEPT !.err = "ConnectionClosed"]
        /\ recvTask' = "failed"
        /\ UNCHANGED inbox
  /\ UNCHANGED <<chunks, sendIdx, sendTask, stopEvent, gpc, gerr, yielded>>
  /\ UNCHANGED wire /\ SessFrame
  /\ UNCHANGED ReceiveVars
  /\ UNCHANGED nonSessVars

StreamAlwaysRaises(e) == "raised"

\* A generator that goes back to waiting whatever recv_task raised.
StreamIgnoresError(e) == "waiting"

\* `except ConnectionClosed: break` -- how the generator ends when
\* recv_task.result() raises e.
StreamOnError(e) == IF e = "ConnectionClosed" THEN "ended" ELSE "raised"

LeavePending(t) == t

\* After the loop: a recv_task that is not done is cancelled and awaited,
\* and its CancelledError is swallowed.
FinishRecvTask(t) == IF t = "pending" THEN "cancelled" ELSE t

\* asyncio.wait returns: the recv_task is done, or stop_event was set.
StreamWake ==
  /\ gpc = "waiting"
  /\ recvTask \in {"done", "failed"} \/ stopEvent
  /\ CASE recvTask = "done" ->
            /\ yielded' = Append(yielded, recvVal)
            /\ gpc' = "yielded"
            /\ UNCHANGED <<gerr, recvTask>>
       [] recvTask = "failed" ->
            /\ gpc' = StreamOnError(recvVal.err)
            /\ gerr' = IF StreamOnError(recvVal.err) = "raised"
                       THEN recvVal.err ELSE gerr
            /\ recvTask' = FinishRecvTask(recvTask)
            /\ UNCHANGED yielded
       [] OTHER ->
            /\ gpc' = "ended"
            /\ recvTask' = FinishRecvTask(recvTask)
            /\ UNCHANGED <<gerr, yielded>>
  /\ UNCHANGED <<chunks, sendIdx, sendTask, stopEvent, recvVal>>
  /\ UNCHANGED <<inbox, wire>> /\ SessFrame
  /\ UNCHANGED ReceiveVars
  /\ UNCHANGED nonSessVars

\* The consumer pulls again: the generator resumes after its yield and
\* sleeps to let the send loop run.
StreamPull ==
  /\ gpc = "yielded"
  /\ gpc' = "sleeping"
  /\ UNCHANGED <<chunks, sendIdx, sendTask, stopEvent, gerr, recvTask, recvVal,
                 yielded>>
  /\ UNCHANGED <<inbox, wire>> /\ SessFrame
  /\ UNCHANGED ReceiveVars
  /\ UNCHANGED nonSessVars

\* After the sleep the loop condition is tested again.
StreamResume ==
  /\ gpc = "sleeping"
  /\ IF stopEvent
     THEN /\ gpc' = "ended"
          /\ recvTask' = FinishRecvTask(recvTask)
     ELSE /\ gpc' = "waiting"
          /\ recvTask' = "pending"
  /\ UNCHANGED <<chunks, sendIdx, sendTask, stopEvent, gerr, recvVal, yielded>>
  /\ UNCHANGED <<inbox, wire>> /\ SessFrame
  /\ UNCHANGED ReceiveVars
  /\ UNCHANGED nonSessVars

NextSession ==
  \/ ServerSend
  \/ PeerDrop
  \/ ReceiveCall
  \/ ReceiveFrame
  \/ ReceiveClosed
  \/ ReceivePull
  \/ StreamStart
  \/ SendChunk
  \/ SendFinish
  \/ RecvTaskStep
  \/ StreamWake
  \/ StreamPull
  \/ StreamResume

InitSession ==
  AuthQuiet /\ ConnQuiet /\ SessInit /\ ContentQuiet /\ RestQuiet

SpecSession == InitSession /\ [][NextSession]_vars

\* A session consumed through start_stream only.
NextStream ==
  \/ ServerSend
  \/ PeerDrop
  \/ StreamStart
  \/ SendChunk
  \/ SendFinish
  \/ RecvTaskStep
  \/ StreamWake
  \/ StreamPull
  \/ StreamResume

InitStream == InitSession /\ mode = "stream"

\* The event loop runs the generator whenever it is ready and the consumer
\* keeps pulling.
SpecStreamFair ==
  /\ InitStream /\ [][NextStream]_vars
  /\ WF_vars(StreamWake) /\ WF_vars(StreamPull) /\ WF_vars(StreamResume)

\* A stream with input to send, on the session of a Gemini API client (the
\* frames are decoded alike for both).  As SpecStreamFair, and the event loop also runs the recv_task whenever a
\* frame is buffered or the connection is closed: ws.recv() returns or raises
\* then.
InitDrain == InitStream /\ ~vertexai /\ chunks # <<>>

SpecStreamDrain ==
  /\ InitDrain /\ [][NextStream]_vars
  /\ WF_vars(StreamWake) /\ WF_vars(StreamPull) /\ WF_vars(StreamResume)
  /\ WF_vars(RecvTaskStep)

\* ------------------------------------------------------ send_client_content
\* Values a caller passes as an element of `turns`: a types.Content, a
\* ContentDict, and a value that is neither (a character of a str, a number).
UserContent == [form |-> "Content", role |-> "user", text |-> 1]
ModelDict == [form |-> "dict", role |-> "model", text |-> 2]
NotContent == [form |-> "other", role |-> "", text |-> 3]

\* The `turns` argument: None, one value that is not a Sequence, or a
\* Sequence (a list, a tuple; a str is a Sequence of its characters).
TurnsInputs ==
  {[shape |-> "None", items |-> <<>>]}
  \cup {[shape |-> "one", items |-> <<x>>] :
           x \in {UserContent, ModelDict, NotContent}}
  \cup {[shape |-> "seq", items |-> q] :
           q \in {<<>>, <<UserContent>>,
                  <<UserContent, ModelDict>>, <<ModelDict, UserContent>>,
                  <<UserContent, NotContent>>, <<NotContent, NotContent>>,
                  <<UserContent, ModelDict, UserContent>>}}

\* _t_content_strict: a dict is validated into a Content, a Content is kept,
\* anything else raises ValueError.
TContentStrict(content) ==
  IF content.form \in {"dict", "Content"}
  THEN [err |-> "", val |-> [content EXCEPT !.form = "Content"]]
  ELSE [err |-> "ValueError", val |-> content]

TContentsReversed(contents) ==
  [i \in 1..Len(contents.items) |->
      TContentStrict(contents.items[Len(contents.items) + 1 - i])]

\* _t_contents_strict: the conversion of every element of a Sequence in
\* order, or of the one value given.
TContentsStrict(contents) ==
  [i \in 1..Len(contents.items) |-> TContentStrict(contents.items[i])]

\* _t_client_content: no turns field when turns is None; any failure of the
\* conversion is raised as ValueError.
TClientContent(turns, turn_complete) ==
  IF turns.shape = "None"
  THEN [err |-> "", hasTurns |-> FALSE, turns |-> <<>>,
        turn_complete |-> turn_complete]
  ELSE LET conv == TContentsStrict(turns) IN
         IF \E i \in 1..Len(conv) : conv[i].err # ""
         THEN [err |-> "ValueError", hasTurns |-> FALSE, turns |-> <<>>,
               turn_complete |-> turn_complete]
         ELSE [err |-> "", hasTurns |-> TRUE,
               turns |-> [i \in 1..Len(conv) |-> conv[i].val],
               turn_complete |-> turn_complete]

\* _Content_to_mldev / _Content_to_vertex (google.genai.models): the wire
\* form of one Content, its role and its parts.
ContentToWire(item, vx) == [role |-> item.role, parts |-> <<item.text>>]

\* _ClientContent_to_mldev / _ClientContent_to_vertex inside the frame
\* {'client_content': ...}: model_dump(exclude_none=True), then every element
\* of 'turns', when the key is there, converted in place.
ClientContentFrame(cc, vx) ==
  [kind |-> "client_content",
   hasTurns |-> cc.hasTurns,
   turns |-> [i \in 1..Len(cc.turns) |-> ContentToWire(cc.turns[i], vx)],
   turn_complete |-> cc.turn_complete]

ContentInit ==
  /\ vertexai \in BOOLEAN
  /\ mode = "receive" /\ inbox = <<>> /\ serverLog = <<>>
  /\ peer = "up" /\ wsOpen = TRUE /\ dropInFlight = FALSE
  /\ wire = <<>> /\ rpc = "none" /\ rerr = ""
  /\ calls = <<>> /\ chunks = <<>> /\ sendIdx = 0 /\ sendTask = "none"
  /\ stopEvent = FALSE /\ gpc = "none" /\ gerr = "" /\ recvTask = "none"
  /\ recvVal = NoMsg /\ yielded = <<>>
  /\ contentCalls = <<>> /\ sendCalls = <<>>

\* One awaited send_client_content call: the conversion, then one ws.send,
\* which raises ConnectionClosed on a lost connection.
SendClientContent ==
  /\ Len(contentCalls) < MaxContentCalls
  /\ \E turns \in TurnsInputs, turn_complete \in BOOLEAN :
       LET cc == TClientContent(turns, turn_complete)
           how == IF cc.err # "" THEN cc.err
                  ELSE IF peer = "up" /\ wsOpen THEN "returned"
                  ELSE "ConnectionClosed" IN
         /\ contentCalls' = Append(contentCalls,
               [turns |-> turns, turn_complete |-> turn_complete, how |-> how])
         /\ wire' = IF how = "returned"
                    THEN Append(wire, ClientContentFrame(cc, vertexai))
                    ELSE wire
  /\ UNCHANGED <<vertexai, mode, inbox, serverLog, peer, wsOpen, dropInFlight>>
  /\ UNCHANGED <<ReceiveVars, StreamVars>>
  /\ UNCHANGED <<authVars, connVars, sendCalls, restVars>>

NextContent ==
  \/ SendClientContent
  \/ PeerDrop

InitContent == AuthQuiet /\ ConnQuiet /\ ContentInit /\ RestQuiet

SpecContent == InitContent /\ [][NextContent]_vars

\* ------------------------------------------- send and send_tool_response
\* Inputs of send: a str, a number, and a dict shaped like a FunctionResponse
\* ('name' and 'response') without an 'id'.
SendInputs == {[type |-> "str", id |-> 0],
               [type |-> "int", id |-> 0],
               [type |-> "FunctionResponseDict", id |-> 0]}

\* Input of send_tool_response: a types.FunctionResponse without an id.
ToolResponseInputs == {[type |-> "FunctionResponse", id |-> 0]}

NoFrame == [kind |-> "none"]

\* _parse_client_message: a str becomes one user turn of client_content with
\* turn_complete = end_of_turn; a FunctionResponse dict without 'id' raises
\* ValueError unless the client is a Vertex client, and is otherwise a
\* tool_response; an input of no supported type raises ValueError.
ParseClientMessage(input, end_of_turn, vx) ==
  CASE input.type = "str" ->
         [err |-> "",
          frame |-> [kind |-> "client_content", hasTurns |-> TRUE,
                     turns |-> <<ContentToWire(UserContent, vx)>>,
                     turn_complete |-> end_of_turn]]
    [] input.type = "FunctionResponseDict" ->
         IF ~vx /\ input.id = 0
         THEN [err |-> "ValueError", frame |-> NoFrame]
         ELSE [err |-> "",
               frame |-> [kind |-> "tool_response", ids |-> <<input.id>>]]
    [] OTHER -> [err |-> "ValueError", frame |-> NoFrame]

\* _t_tool_response, then _ToolResponse_to_mldev / _ToolResponse_to_vertex:
\* an empty input raises ValueError; any failure of t.t_function_responses
\* (_transformers.py here defines no such function, so the attribute lookup
\* fails) is raised as ValueError; a converted response without id raises
\* ValueError for a client that is not a Vertex client.
ToolResponseMessage(input, converts, vx) ==
  IF ~converts \/ (~vx /\ input.id = 0)
  THEN [err |-> "ValueError", frame |-> NoFrame]
  ELSE [err |-> "", frame |-> [kind |-> "tool_response", ids |-> <<input.id>>]]

SendFrameAlways(w, r) == Append(w, r.frame)

\* `client_message = ...; await self._ws.send(json.dumps(client_message))`:
\* the frame is written only when the conversion has returned.
SendFrame(w, r) == IF r.err = "" THEN Append(w, r.frame) ELSE w

\* The outcome of a call whose conversion gave r.
SendOutcome(r) ==
  IF r.err # "" THEN r.err
  ELSE IF peer = "up" /\ wsOpen THEN "returned"
  ELSE "ConnectionClosed"

SendTail(api, input, r) ==
  /\ sendCalls' = Append(sendCalls,
        [api |-> api, input |-> input, how |-> SendOutcome(r)])
  /\ wire' = IF SendOutcome(r) = "ConnectionClosed" THEN wire
             ELSE SendFrame(wire, r)
  /\ UNCHANGED <<vertexai, mode, inbox, serverLog, peer, wsOpen, dropInFlight>>
  /\ UNCHANGED <<ReceiveVars, StreamVars>>
  /\ UNCHANGED <<authVars, connVars, contentCalls, restVars>>

\* One awaited send call.
Send ==
  /\ Len(sendCalls) < MaxSendCalls
  /\ \E input \in SendInputs :
       SendTail("send", input, ParseClientMessage(input, FALSE, vertexai))

\* One awaited send_tool_response call.
SendToolResponse ==
  /\ Len(sendCalls) < MaxSendCalls
  /\ \E input \in ToolResponseInputs, converts \in BOOLEAN :
       SendTail("send_tool_response", input,
                ToolResponseMessage(input, converts, vertexai))

\* An open session used for send, send_tool_response and receive.
NextProtocol ==
  \/ Send
  \/ SendToolResponse
  \/ ServerSend
  \/ ReceiveCall
  \/ ReceiveFrame
  \/ ReceivePull

SpecProtocol == InitContent /\ [][NextProtocol]_vars

\* ----------------------------------------------------------- chunked upload
\* Largest file and largest declared size tried: two full blocks and a byte.
MaxFileSize == 2 * ChunkSize + 1

Min(a, b) == IF a < b THEN a ELSE b

\* Values of the x-goog-upload-status response header; "absent" when the
\* response carries no such header.
UploadStatuses == {"active", "final", "cancelled", "absent"}

\* `file.read(CHUNK_SIZE)` at position pos: the length of the block read.
ReadChunk(size, pos) == Min(ChunkSize, size - pos)

UploadCommandEager(chunk_size, off, upload_size) ==
  IF chunk_size + off + ChunkSize >= upload_size
  THEN "upload, finalize" ELSE "upload"

UploadCommandStrict(chunk_size, off, upload_size) ==
  IF chunk_size + off > upload_size THEN "upload, finalize" ELSE "upload"

\* upload_command: 'upload', with ', finalize' appended when
\* chunk_size + offset >= upload_size.
UploadCommand(chunk_size, off, upload_size) ==
  IF chunk_size + off >= upload_size THEN "upload, finalize" ELSE "upload"

NextOffsetNominal(off, chunk_size) == off + ChunkSize

\* `offset += chunk_size`
NextOffset(off, chunk_size) == off + chunk_size

StatusNotActive(st) == st # "active"

\* `response.headers[...] != 'final'` is what raises after the loop.
StatusFinal(st) == st = "final"

UploadInit ==
  /\ uAsync \in BOOLEAN
  /\ fileSize \in 0..MaxFileSize
  /\ uploadSize \in 0..MaxFileSize
  /\ offset = 0 /\ posts = <<>> /\ upc = "loop" /\ uerr = ""
  /\ syncRun = "none" /\ asyncRun = "none"

\* One iteration of the loop of _upload_fd / _async_upload_fd: read a block,
\* POST it, advance the offset and look at the upload status of the response
\* (headers[...] raises KeyError on a missing header, headers.get(...) gives
\* None).
UploadBlock ==
  /\ upc = "loop" /\ Len(posts) < MaxBlocks
  /\ \E st \in UploadStatuses :
       LET chunk_size == ReadChunk(fileSize, offset)
           off == NextOffset(offset, chunk_size) IN
         /\ posts' = Append(posts,
               [command |-> UploadCommand(chunk_size, offset, uploadSize),
                offset |-> offset, clen |-> chunk_size, body |-> chunk_size,
                status |-> st])
         /\ offset' = off
         /\ IF st = "absent" /\ ~uAsync
            THEN upc' = "raised" /\ uerr' = "KeyError"
            ELSE IF st # "active"
            THEN IF StatusFinal(st)
                 THEN upc' = "returned" /\ uerr' = ""
                 ELSE upc' = "raised" /\ uerr' = "ValueError"
            ELSE IF uploadSize <= off
            THEN upc' = "raised" /\ uerr' = "ValueError"
            ELSE upc' = "loop" /\ uerr' = ""
  /\ UNCHANGED <<uAsync, fileSize, uploadSize, syncRun, asyncRun>>
  /\ UNCHANGED <<liveVars, pollVars, reqVars, fnVars>>

NextUpload == UploadBlock

LiveQuiet == AuthQuiet /\ ConnQuiet /\ SessQuiet /\ ContentQuiet

InitUpload == LiveQuiet /\ UploadInit /\ PollQuiet /\ ReqQuiet /\ FnQuiet

SpecUpload == InitUpload /\ [][NextUpload]_vars

\* `offset = 0` before the loop.
StartedRun == [offset |-> 0, posts |-> <<>>, upc |-> "loop", uerr |-> ""]

\* What follows the POST in one iteration: response.headers[...] in
\* _upload_fd (833, 841) raises KeyError on a missing header,
\* response.headers.get(...) in _async_upload_fd (979, 987) gives None.
AfterPost(async, st, off, upload_size) ==
  IF st = "absent" /\ ~async
  THEN [upc |-> "raised", uerr |-> "KeyError"]
  ELSE IF st # "active"
  THEN IF StatusFinal(st)
       THEN [upc |-> "returned", uerr |-> ""]
       ELSE [upc |-> "raised", uerr |-> "ValueError"]
  ELSE IF upload_size <= off
  THEN [upc |-> "raised", uerr |-> "ValueError"]
  ELSE [upc |-> "loop", uerr |-> ""]

\* One iteration of the loop of _upload_fd (async FALSE) or _async_upload_fd
\* (async TRUE) on a run, the server answering with status st.
UploadStep(async, run, size, upload_size, st) ==
  LET chunk_size == ReadChunk(size, run.offset)
      off == NextOffset(run.offset, chunk_size)
      after == AfterPost(async, st, off, upload_size)
  IN  [offset |-> off,
       posts |-> Append(run.posts,
            [command |-> UploadCommand(chunk_size, run.offset, upload_size),
             offset |-> run.offset, clen |-> chunk_size,
             body |-> chunk_size, status |-> st]),
       upc |-> after.upc, uerr |-> after.uerr]

BothInit ==
  /\ uAsync = FALSE
  /\ fileSize \in 0..MaxFileSize
  /\ uploadSize \in 0..MaxFileSize
  /\ offset = 0 /\ posts = <<>> /\ upc = "none" /\ uerr = ""
  /\ syncRun = StartedRun /\ asyncRun = StartedRun

\* The next iteration of both loops, the server giving both the same answer;
\* a loop that has ended makes no further request.
BothBlock ==
  /\ syncRun.upc = "loop" \/ asyncRun.upc = "loop"
  /\ Len(syncRun.posts) < MaxBlocks /\ Len(asyncRun.posts) < MaxBlocks
  /\ \E st \in UploadStatuses :
       /\ syncRun' = IF syncRun.upc = "loop"
                     THEN UploadStep(FALSE, syncRun, fileSize, uploadSize, st)
                     ELSE syncRun
       /\ asyncRun' = IF asyncRun.upc = "loop"
                      THEN UploadStep(TRUE, asyncRun, fileSize, uploadSize, st)
                      ELSE asyncRun
  /\ UNCHANGED <<uAsync, fileSize, uploadSize, offset, posts, upc, uerr>>
  /\ UNCHANGED <<liveVars, pollVars, reqVars, fnVars>>

NextBoth == BothBlock

InitBoth == LiveQuiet /\ BothInit /\ PollQuiet /\ ReqQuiet /\ FnQuiet

SpecBoth == InitBoth /\ [][NextBoth]_vars

\* --------------------------------------------------------- operation poller
\* Time is counted in 1/256 s, which keeps the delays 1.0 * 1.5^n whole numbers
\* up to the 20 s cap.
TicksPerSecond == 256

\* LRO_POLLING_INITIAL_DELAY_SECONDS, _MAXIMUM_DELAY_SECONDS, _TIMEOUT_SECONDS
InitialDelay == 1 * TicksPerSecond
MaximumDelay == 20 * TicksPerSecond
PollingTimeout == 900 * TicksPerSecond

\* Names as sequences of path tokens, "/" among them.
Names == {<<>>,
          <<"models", "/", "m">>,
          <<"operations", "/", "1">>,
          <<"p", "/", "operations">>,
          <<"p", "/", "operations", "/", "1">>}

\* `'/operations/' in name`
HasMarker(name) ==
  \E i \in 1..(Len(name) - 2) :
     name[i] = "/" /\ name[i + 1] = "operations" /\ name[i + 2] = "/"

HasName(st) == st.hasName /\ st.name # <<>>

\* `(name := struct.get('name')) and '/operations/' in name`
IsOperation(st) == st.hasName /\ st.name # <<>> /\ HasMarker(st.name)

\* The fields of a handle that the poller reads: done (absent, false, true),
\* error (absent, an empty object, an error) and response.
Handles ==
  [hasName : {TRUE}, name : {<<"p", "/", "operations", "/", "1">>},
   done : {"absent", "false", "true"},
   error : {"absent", "empty", "E"},
   response : {"absent", "R"}]

\* Payloads given to t_resolve_operation.
Structs ==
  [hasName : BOOLEAN, name : Names, done : {"false", "true"},
   error : {"absent", "E"}, response : {"absent", "R"}]

\* `operation.get('done') != True`
NotDone(h) == h.done # "true"

ErrorNever(h) == FALSE

\* `if error := operation.get('error')`
ErrorSet(h) == h.error = "E"

\* The exponential backoff: min(delay * 1.5, 20 s).
Backoff(d) == Min((d * 3) \div 2, MaximumDelay)

\* `total_seconds += total_seconds`
TotalAfter(total, d) == total + total

PollInit ==
  /\ struct \in Structs
  /\ operation = NoHandle
  /\ totalSeconds = 0 /\ delaySeconds = 0 /\ elapsed = 0 /\ fetches = <<>>
  /\ ppc = "start" /\ pret = NoValue /\ perr = NoError

PollFrame == UNCHANGED <<liveVars, uploadVars, reqVars, fnVars, struct>>

\* The call starts: a payload that is no operation handle is returned as it
\* is; otherwise polling starts with the payload as the first handle.
ResolveStart ==
  /\ ppc = "start"
  /\ IF IsOperation(struct)
     THEN /\ operation' = struct
          /\ totalSeconds' = 0 /\ delaySeconds' = InitialDelay
          /\ ppc' = "loop" /\ UNCHANGED pret
     ELSE /\ ppc' = "returned" /\ pret' = [NoValue EXCEPT !.kind = "struct", !.payload = struct]
          /\ UNCHANGED <<operation, totalSeconds, delaySeconds>>
  /\ UNCHANGED <<elapsed, fetches, perr>>
  /\ PollFrame

\* One iteration of the loop on a handle that is not done: the timeout test,
\* then the GET, the sleep and the backoff.
PollOnce ==
  /\ ppc = "loop" /\ NotDone(operation)
  /\ IF totalSeconds > PollingTimeout
     THEN /\ ppc' = "raised"
          /\ perr' = [kind |-> "timeout", val |-> operation]
          /\ UNCHANGED <<operation, totalSeconds, delaySeconds, elapsed,
                         fetches>>
     ELSE /\ Len(fetches) < MaxPolls
          /\ \E h \in Handles :
               /\ operation' = h
               /\ fetches' = Append(fetches,
                     [at |-> elapsed,
                      outcome |-> IF NotDone(h) THEN "pending" ELSE "done",
                      slept |-> TRUE])
          /\ elapsed' = elapsed + delaySeconds
          /\ totalSeconds' = TotalAfter(totalSeconds, delaySeconds)
          /\ delaySeconds' = Backoff(delaySeconds)
          /\ UNCHANGED <<ppc, perr>>
  /\ UNCHANGED pret
  /\ PollFrame

\* The GET of an iteration fails: the error of api_client.request leaves the
\* call.
PollRequestFails ==
  /\ ppc = "loop" /\ NotDone(operation)
  /\ totalSeconds <= PollingTimeout
  /\ Len(fetches) < MaxPolls
  /\ fetches' = Append(fetches,
        [at |-> elapsed, outcome |-> "error", slept |-> FALSE])
  /\ ppc' = "raised" /\ perr' = [kind |-> "request", val |-> operation]
  /\ UNCHANGED <<operation, totalSeconds, delaySeconds, elapsed, pret>>
  /\ PollFrame

\* The handle is done: its error is raised, or its response is returned.
PollFinish ==
  /\ ppc = "loop" /\ ~NotDone(operation)
  /\ IF ErrorSet(operation)
     THEN /\ ppc' = "raised"
          /\ perr' = [kind |-> "failed", val |-> operation]
          /\ UNCHANGED pret
     ELSE /\ ppc' = "returned"
          /\ pret' = [NoValue EXCEPT !.kind = "response",
                                      !.response = operation.response]
          /\ UNCHANGED perr
  /\ UNCHANGED <<operation, totalSeconds, delaySeconds, elapsed, fetches>>
  /\ PollFrame

NextPoll ==
  \/ ResolveStart
  \/ PollOnce
  \/ PollRequestFails
  \/ PollFinish

InitPoll == LiveQuiet /\ UploadQuiet /\ PollInit /\ ReqQuiet /\ FnQuiet

SpecPoll == InitPoll /\ [][NextPoll]_vars

\* --------------------------------------------------------- request envelope
\* self._http_options.headers after __init__: Content-Type, the telemetry
\* headers, and the API key header when a key is used.
DefaultHeaders(b) ==
  {"Content-Type", "user-agent", "x-goog-api-client"}
     \cup (IF b THEN {} ELSE {"x-goog-api-key"})

\* Headers of the per-call http_options.
PatchHeaders == {"x-call"}

ReqInit ==
  /\ bearer \in BOOLEAN /\ quotaProject \in BOOLEAN
  /\ heap = <<DefaultHeaders(bearer)>>
  /\ reqs = <<>> /\ liveHeaders = 0

ReqFrame ==
  UNCHANGED <<liveVars, uploadVars, pollVars, fnVars, bearer, quotaProject>>

\* _patch_http_options: a copy of the options whose headers are a new dict,
\* the client's headers overlaid with the call's.
PatchHttpOptions(h) == Append(h, h[1] \cup PatchHeaders)

\* The bodies a request is built with: raw bytes, a structured body with
\* fields, and the empty structured body of a call with no parameters.
Bodies ==
  { [kind |-> "bytes", val |-> <<"b1", "b2">>],
    [kind |-> "dict", val |-> <<"k">>],
    [kind |-> "dict", val |-> <<>>] }

NoContent == [kind |-> "None", val |-> <<>>]

\* json.dumps of a structured body: the text of the object.
JsonDumps(data) ==
  [kind |-> "text", val |-> <<"{">> \o data.val \o <<"}">>]

\* bool(http_request.data): empty bytes and the empty dict are falsy.
Truthy(data) == data.val # <<>>

\* A request as _build_request returns it, with the log of what _request
\* did with it.
NewRequest(r, data) ==
  [ref |-> r, sent |-> FALSE, body |-> data, before |-> {}, after |-> {},
   token |-> FALSE, how |-> "pending", content |-> NoContent]

\* _build_request without per-call http_options: patched_http_options is
\* self._http_options, and the HttpRequest takes its headers dict.
BuildRequestDefault ==
  /\ Len(reqs) < MaxRequests
  /\ \E data \in Bodies : reqs' = Append(reqs, NewRequest(1, data))
  /\ UNCHANGED <<heap, liveHeaders>>
  /\ ReqFrame

\* _build_request with per-call http_options.
BuildRequestPatched ==
  /\ Len(reqs) < MaxRequests
  /\ heap' = PatchHttpOptions(heap)
  /\ \E data \in Bodies :
       reqs' = Append(reqs, NewRequest(Len(heap) + 1, data))
  /\ UNCHANGED liveHeaders
  /\ ReqFrame

\* Authentication headers set for every client.
AuthHeadersAlways ==
  {"Authorization"}
     \cup (IF quotaProject THEN {"x-goog-user-project"} ELSE {})

\* The headers _request / _async_request set on http_request.headers.
AuthHeaders ==
  IF bearer
  THEN {"Authorization"}
          \cup (IF quotaProject THEN {"x-goog-user-project"} ELSE {})
  ELSE {}

\* The data _request / _async_request hands to the HTTP client, or the
\* TypeError json.dumps raises on bytes.
RequestData(data, b) ==
  IF b
  THEN IF Truthy(data)
       THEN IF data.kind = "bytes"
            THEN [err |-> "TypeError", content |-> NoContent]
            ELSE [err |-> "none", content |-> JsonDumps(data)]
       ELSE [err |-> "none", content |-> NoContent]
  ELSE IF Truthy(data)
       THEN IF data.kind # "bytes"
            THEN [err |-> "none", content |-> JsonDumps(data)]
            ELSE [err |-> "none", content |-> data]
       ELSE [err |-> "none", content |-> NoContent]

\* _request / _async_request on a request built before. With bearer
\* authentication _access_token is called first and may raise; the headers
\* are set before the body is serialized.
Request ==
  /\ \E i \in 1..Len(reqs) :
       /\ ~reqs[i].sent
       /\ \E tokenOk \in BOOLEAN :
            LET hdrs == heap[reqs[i].ref]
                out == RequestData(reqs[i].body, bearer)
                added == IF bearer /\ ~tokenOk THEN {} ELSE AuthHeaders
            IN  /\ heap' = [heap EXCEPT ![reqs[i].ref] = @ \cup added]
                /\ reqs' = [reqs EXCEPT
                     ![i] = [@ EXCEPT
                       !.sent = TRUE,
                       !.before = hdrs,
                       !.after = hdrs \cup added,
                       !.token = bearer,
                       !.how = IF bearer /\ ~tokenOk THEN "AuthError"
                               ELSE IF out.err # "none" THEN out.err
                               ELSE "ok",
                       !.content = IF bearer /\ ~tokenOk THEN NoContent
                                   ELSE out.content]]
  /\ UNCHANGED liveHeaders
  /\ ReqFrame

\* AsyncLive.connect: headers is self._api_client._http_options.headers, and
\* without an API key the bearer token is put into it.
ConnectHeaders ==
  /\ liveHeaders = 0
  /\ liveHeaders' = 1
  /\ heap' = [heap EXCEPT ![1] = @ \cup (IF bearer THEN {"Authorization"}
                                                   ELSE {})]
  /\ UNCHANGED reqs
  /\ ReqFrame

NextRequest ==
  \/ BuildRequestDefault
  \/ BuildRequestPatched
  \/ Request
  \/ ConnectHeaders

InitRequest == LiveQuiet /\ UploadQuiet /\ PollQuiet /\ ReqInit /\ FnQuiet

SpecRequest == InitRequest /\ [][NextRequest]_vars

\* ------------------------------------------------ credential manager claims

\* C1: for one client, in every interleaving of concurrent
\* _async_access_token callers, at most one credential load or refresh is in
\* flight at any time.
C1_OneInFlight == Cardinality(InFlight) <= 1

\* One caller's load or refresh is in flight while another caller is queued
\* behind the lock.
C1_Witness ==
  \E c, d \in Callers :
     /\ pc[c] \in {"loading", "refreshing"}
     /\ pc[d] \in {"waitLoadLock", "waitRefreshLock"}

AllDone == \A c \in Callers : pc[c] = "done"

\* C2: when callers race on a credential that is expired or has an empty
\* token and the refresh yields a non-empty unexpired token, _refresh_auth
\* runs exactly once and every caller returns the post-refresh token.
C2_OneRefreshAllFresh ==
  (initNeeds /\ ~badAuth /\ expiries = 0) =>
     /\ refreshCount <= 1
     /\ (\E c \in Callers : pc[c] = "done") => refreshCount = 1
     /\ \A c \in Callers :
          pc[c] = "done" =>
             /\ result[c].kind = "token"
             /\ result[c].tok = creds[credentials].token
             /\ result[c].tok >= 2
             /\ ~creds[credentials].expired

\* Every caller has returned, at least one of them after queueing behind the
\* lock while the single refresh was in flight.
C2_Witness ==
  /\ initNeeds /\ ~badAuth /\ expiries = 0
  /\ AllDone
  /\ \E c \in Callers : waited[c]
  /\ refreshCount = 1
  /\ \A c \in Callers : result[c].kind = "token"

\* C3: the blocking _access_token gives the same guarantee as the async
\* variant: with several threads calling it, at most one load/refresh is in
\* flight at any time and no redundant load or refresh is issued (when no
\* load or refresh fails: one load at most and one refresh per expiry).
C3_SyncOneInFlight ==
  /\ Cardinality(InFlight) <= 1
  /\ ~badAuth => (loadCount <= 1 /\ refreshCount <= expiries + 1)

\* C4: every call to _access_token / _async_access_token that has finished
\* either returned a non-empty token or failed with an error; an empty token
\* is never returned.
C4_NonEmptyTokenOrError ==
  \A c \in Callers :
     pc[c] = "done" =>
        \/ result[c].kind = "error"
        \/ result[c].kind = "token" /\ result[c].tok # 0

\* ----------------------------------------------------------- connect claims

SetupCount(i) == Cardinality({k \in 1..Len(socks[i].sent) :
                                 socks[i].sent[k].kind = "setup"})

\* C6: on every connection made by connect the first frame written is the
\* setup message, a session is handed to the caller only after a server frame
\* was received in reply, and once the send or the receive of a handshake has
\* failed that socket is closed and the call never holds a session again.
C6_HandshakeThenSession ==
  /\ \A i \in 1..Len(socks) :
        socks[i].sent # <<>> => socks[i].sent[1].kind = "setup"
  /\ cpc \in {"session1", "session2"} => socks[Cur].got >= 1
  /\ hsFailed # 0 => /\ ~socks[hsFailed].open
                     /\ cpc \notin {"session1", "session2", "exited"}

\* C7: a single connect call opens at most one socket and sends the setup
\* message at most once, whatever fails in the handshake or in the caller's
\* block.
C7_OneSocket ==
  /\ Len(socks) <= 1
  /\ \A i \in 1..Len(socks) : SetupCount(i) <= 1

\* ----------------------------------------------------------- session claims

\* The wire frame behind the j-th message of a receive() call c.
FrameOf(c, j) == serverLog[c.start + j]

\* C5: each receive() call yields the decoded server messages in arrival
\* order up to and including the first one whose server_content carries
\* turn_complete, then stops without closing the socket, and the next call
\* starts with the frame that follows.
C5_ReceiveOneTurn ==
  /\ wsOpen
  /\ \A k \in 1..Len(calls) :
       LET c == calls[k]
           n == Len(c.msgs) IN
         /\ c.start + n <= Consumed
         /\ \A j \in 1..n :
              /\ c.msgs[j].id = FrameOf(c, j).id
              /\ FrameOf(c, j).kind # "garbage"
              /\ c.msgs[j].server_content.present =
                    (FrameOf(c, j).kind \in {"content", "turnTrue", "turnFalse"})
              /\ c.msgs[j].tool_call = (FrameOf(c, j).kind = "toolCall")
         /\ \A j \in 1..(n - 1) : FrameOf(c, j).kind # "turnTrue"
         /\ c.how = "ended" => (n >= 1 /\ FrameOf(c, n).kind = "turnTrue")
         /\ (k = Len(calls) /\ rpc = "waiting" /\ n >= 1) =>
               FrameOf(c, n).kind # "turnTrue"
         /\ (k < Len(calls) /\ c.how = "ended") => calls[k + 1].start = c.start + n

\* A first call delivered a whole turn and a second call has delivered the
\* frame after it.
C5_Witness ==
  /\ Len(calls) = 2
  /\ calls[1].how = "ended" /\ Len(calls[1].msgs) >= 2
  /\ Len(calls[2].msgs) >= 1
  /\ calls[2].msgs[1].id = calls[1].msgs[Len(calls[1].msgs)].id + 1

RecvSawClosed ==
  dropInFlight /\ recvTask = "failed" /\ recvVal.err = "ConnectionClosed"

StreamOver == gpc \in {"ended", "raised"}

C9_Safe ==
  /\ Len(wire) <= Len(chunks)
  /\ \A i \in 1..Len(wire) :
        wire[i].kind = "realtime_input" /\ wire[i].chunks = <<chunks[i]>>
  /\ stopEvent => Len(wire) = Len(chunks)
  /\ StreamOver => recvTask # "pending"
  /\ recvTask = "cancelled" => (gpc = "ended" /\ gerr = "")
  /\ gpc = "raised" => (recvTask = "failed" /\ gerr = recvVal.err)

ReturnedCalls == SelectSeq(contentCalls, LAMBDA c : c.how = "returned")

\* C10: sequential send_client_content calls that return have each written
\* exactly one client_content frame (a call that raised wrote none), the
\* frames are on the socket in the order of the calls, and each carries its
\* call's turns in the order given.
C10_ContentFramesInOrder ==
  /\ Len(wire) = Len(ReturnedCalls)
  /\ \A k \in 1..Len(ReturnedCalls) :
       LET c == ReturnedCalls[k]
           f == wire[k] IN
         /\ f.kind = "client_content"
         /\ f.turn_complete = c.turn_complete
         /\ f.hasTurns = (c.turns.shape # "None")
         /\ Len(f.turns) = Len(c.turns.items)
         /\ \A i \in 1..Len(f.turns) :
              /\ f.turns[i].role = c.turns.items[i].role
              /\ f.turns[i].parts = <<c.turns.items[i].text>>

\* Two calls returned, the first with two different turns and the second
\* with other turns than the first.
C10_Witness ==
  /\ Len(contentCalls) = 2 /\ Len(wire) = 2
  /\ Len(contentCalls[1].turns.items) >= 2
  /\ contentCalls[1].turns.items[1] # contentCalls[1].turns.items[2]
  /\ contentCalls[1].turns # contentCalls[2].turns

\* ------------------------------------------------- protocol error claims

\* The outcome the session gives a send / send_tool_response call on an open
\* socket whatever failed before it.
ProtocolOutcomes(c) ==
  CASE c.input.type = "str" -> {"returned"}
    [] c.input.type = "int" -> {"ValueError"}
    [] c.input.type = "FunctionResponseDict" ->
         IF vertexai THEN {"returned"} ELSE {"ValueError"}
    [] OTHER -> IF vertexai THEN {"returned", "ValueError"} ELSE {"ValueError"}

SentCalls == SelectSeq(sendCalls, LAMBDA c : c.how = "returned")

\* C11: a send, send_tool_response or receive call that fails with a protocol
\* error (ValueError) writes no frame and leaves the socket open; calls made
\* after it proceed as on a fresh session: sends return and write their one
\* frame, and the next receive() starts with the frame after the unparseable
\* one.
C11_ProtocolErrorLocal ==
  /\ wsOpen /\ peer = "up"
  /\ Len(wire) = Len(SentCalls)
  /\ \A k \in 1..Len(sendCalls) : sendCalls[k].how \in ProtocolOutcomes(sendCalls[k])
  /\ \A k \in 1..Len(SentCalls) :
       wire[k].kind = IF SentCalls[k].input.type = "str"
                      THEN "client_content" ELSE "tool_response"
  /\ \A k \in 1..Len(calls) :
       calls[k].how = "ValueError" =>
          /\ serverLog[calls[k].start + Len(calls[k].msgs) + 1].kind = "garbage"
          /\ k < Len(calls) =>
                /\ calls[k + 1].start = calls[k].start + Len(calls[k].msgs) + 1
                /\ \A j \in 1..Len(calls[k + 1].msgs) :
                     calls[k + 1].msgs[j].id = calls[k + 1].start + j

\* A send failed and a later send wrote its frame; a receive() raised on an
\* unparseable frame and the next receive() delivered the frame after it.
C11_Witness ==
  /\ Len(sendCalls) = 2
  /\ sendCalls[1].how = "ValueError" /\ sendCalls[2].how = "returned"
  /\ Len(wire) = 1
  /\ Len(calls) = 2
  /\ calls[1].how = "ValueError" /\ Len(calls[2].msgs) >= 1

\* ----------------------------------------------------------- upload claims

RECURSIVE BodySum(_)
\* Total length of the first n blocks sent.
BodySum(n) == IF n = 0 THEN 0 ELSE BodySum(n - 1) + posts[n].body

\* C12: every block POST declares an X-Goog-Upload-Offset equal to the total
\* length of the blocks sent before it, a Content-Length equal to its block's
\* length, and 'upload, finalize' exactly when offset + block length reaches
\* the declared upload size.
C12_BlockHeaders ==
  \A i \in 1..Len(posts) :
     /\ posts[i].offset = BodySum(i - 1)
     /\ posts[i].clen = posts[i].body
     /\ posts[i].body = Min(ChunkSize, fileSize - BodySum(i - 1))
     /\ (posts[i].command = "upload, finalize") =
           (posts[i].offset + posts[i].body >= uploadSize)
     /\ posts[i].command \in {"upload", "upload, finalize"}

\* Three blocks were sent, the last one shorter than the others.
C12_Witness ==
  /\ Len(posts) = 3 /\ posts[3].body > 0 /\ posts[3].body < posts[2].body
  /\ posts[3].command = "upload, finalize" /\ posts[2].command = "upload"

\* C13: the upload returns a response only when the last upload status was
\* exactly 'final'; no block is sent after a status other than 'active', and
\* a last status that is neither 'active' nor 'final' makes the upload fail.
C13_ReturnsOnlyOnFinal ==
  /\ upc = "returned" => posts[Len(posts)].status = "final"
  /\ \A i \in 1..(Len(posts) - 1) : posts[i].status = "active"
  /\ (Len(posts) > 0 /\ posts[Len(posts)].status \notin {"active", "final"}) =>
        upc = "raised"

\* A second block got a status that is neither 'active' nor 'final' and the
\* upload failed.
C13_Witness ==
  /\ Len(posts) = 2 /\ posts[2].status = "cancelled" /\ upc = "raised"

\* C14: the upload never returns successfully when fewer bytes were sent
\* than the declared upload size.
C14_NoPrematureSuccess == upc = "returned" => offset >= uploadSize

\* The server follows the protocol: 'active' for a block that does not
\* finalize, 'final' for the one that does.
Cooperative ==
  \A i \in 1..Len(posts) :
     posts[i].status =
        IF posts[i].command = "upload, finalize" THEN "final" ELSE "active"

\* C15: a file of exactly k >= 1 full blocks, declared with its size and
\* uploaded to a server that follows the protocol, takes exactly k POSTs, the
\* k-th carrying 'upload, finalize', and no empty block is sent.
C15_ExactMultiple ==
  \A k \in 1..(MaxFileSize \div ChunkSize) :
     (fileSize = k * ChunkSize /\ uploadSize = fileSize /\ Cooperative) =>
        /\ Len(posts) <= k
        /\ \A i \in 1..Len(posts) :
             /\ posts[i].body = ChunkSize
             /\ (posts[i].command = "upload, finalize") = (i = k)
        /\ upc # "raised"
        /\ upc = "returned" <=> Len(posts) = k

\* A file of two full blocks was uploaded with two POSTs.
C15_Witness ==
  /\ fileSize = 2 * ChunkSize /\ uploadSize = fileSize /\ Cooperative
  /\ upc = "returned" /\ Len(posts) = 2

\* C35: on the same file, declared size and server answers, _upload_fd and
\* _async_upload_fd make the same POSTs and end the same way: both return,
\* or both raise the same kind of error.
C35_SameExchange ==
  /\ syncRun.posts = asyncRun.posts
  /\ syncRun.upc = asyncRun.upc
  /\ syncRun.uerr = asyncRun.uerr

\* C36: every iteration that leaves the loop running has read at least one
\* byte, so that the loop ends after at most upload_size + 1 POSTs whatever
\* the file holds and the server answers.
C36_Terminates ==
  /\ (upc = "loop" /\ posts # <<>>) => posts[Len(posts)].clen > 0
  /\ Len(posts) <= uploadSize + 1

\* C37: at most one POST carries 'upload, finalize' and it is the last one;
\* an 'active' answer once all declared bytes were sent raises.
C37_FinalizeIsLast ==
  /\ \A i \in 1..Len(posts) :
       posts[i].command = "upload, finalize" =>
          i = Len(posts) /\ upc # "loop"
  /\ (posts # <<>> /\ posts[Len(posts)].status = "active"
        /\ offset >= uploadSize) => upc = "raised"

\* The second block finalized, the server answered 'active' and the upload
\* raised.
C37_Witness ==
  /\ Len(posts) = 2
  /\ posts[1].command = "upload"
  /\ posts[2].command = "upload, finalize"
  /\ posts[2].status = "active"
  /\ upc = "raised" /\ uerr = "ValueError"

\* ----------------------------------------------------------- poller claims

\* C16: a poller whose operation never reports done stops polling once the
\* time elapsed since polling began exceeds the 900-second budget: no GET is
\* issued after that, the call fails naming the last-seen handle.
C16_PollingTimesOut ==
  \A i \in 1..Len(fetches) : fetches[i].at <= PollingTimeout

\* C17: no backoff sleep follows a fetch that returned done = true.
C17_NoSleepAfterDone ==
  \A i \in 1..Len(fetches) : fetches[i].outcome = "done" => ~fetches[i].slept

C19_NonOperationUnchanged ==
  ~(struct.hasName /\ HasMarker(struct.name)) =>
     /\ fetches = <<>> /\ elapsed = 0
     /\ ppc \in {"start", "returned"}
     /\ ppc = "returned" => (pret.kind = "struct" /\ pret.payload = struct)

\* A payload named after an operation, yet without the marker between
\* slashes, came back unchanged.
C19_Witness ==
  /\ struct.hasName /\ struct.name = <<"operations", "/", "1">>
  /\ struct.done = "false"
  /\ ppc = "returned" /\ pret.payload = struct

\* ----------------------------------------------------- HTTP option patch

\* State outside the pure helpers of the transport core and the encoder.
baseVars == <<liveVars, uploadVars, pollVars, reqVars, xfVars>>

BaseQuiet == LiveQuiet /\ UploadQuiet /\ PollQuiet /\ ReqQuiet /\ XfQuiet

\* Header values are sequences of space-separated tokens.
\* version_header_value: '<library_label> <language_label>'.
VersionHeaderValue == <<"google-genai-sdk/v", "gl-python/v">>

IdKeys == {"user-agent", "x-goog-api-client"}

HeaderKeys == {"X-Custom-Header"} \cup IdKeys

\* Values a caller or an earlier patch puts under a key.
HeaderValues(k) ==
  IF k \in IdKeys
  THEN {<<"my-app">>, VersionHeaderValue, <<"my-app">> \o VersionHeaderValue}
  ELSE {<<"custom_value">>, <<"different_value">>}

HeaderMaps ==
  UNION { {h \in [S -> UNION {HeaderValues(k) : k \in HeaderKeys}] :
              \A k \in S : h[k] \in HeaderValues(k)} : S \in SUBSET HeaderKeys }

\* `needle in value` on strings, token by token.
Occurrences(value, needle) ==
  {i \in 0..(Len(value) - Len(needle)) :
      SubSeq(value, i + 1, i + Len(needle)) = needle}

Contains(value, needle) == Occurrences(value, needle) # {}

\* One of the two blocks of _append_library_version_headers, which always
\* appends the token.
AppendAlways(headers, k) ==
  IF k \in DOMAIN headers
  THEN [headers EXCEPT ![k] = @ \o VersionHeaderValue]
  ELSE [j \in DOMAIN headers \cup {k} |->
          IF j = k THEN VersionHeaderValue ELSE headers[j]]

\* One of the two blocks of _append_library_version_headers.
AppendVersion(headers, k) ==
  IF k \in DOMAIN headers /\ ~Contains(headers[k], VersionHeaderValue)
  THEN [headers EXCEPT ![k] = @ \o VersionHeaderValue]
  ELSE IF k \notin DOMAIN headers
       THEN [j \in DOMAIN headers \cup {k} |->
               IF j = k THEN VersionHeaderValue ELSE headers[j]]
       ELSE headers

AppendLibraryVersionHeaders(headers) ==
  AppendVersion(AppendVersion(headers, "user-agent"), "x-goog-api-client")

\* {**patch_options_headers, **options_headers}: the base wins.
MergeBaseWins(options_headers, patch_options_headers) ==
  [k \in DOMAIN options_headers \cup DOMAIN patch_options_headers |->
     IF k \in DOMAIN options_headers
     THEN options_headers[k] ELSE patch_options_headers[k]]

\* {**options_headers, **patch_options_headers}
MergeHeaders(options_headers, patch_options_headers) ==
  [k \in DOMAIN options_headers \cup DOMAIN patch_options_headers |->
     IF k \in DOMAIN patch_options_headers
     THEN patch_options_headers[k] ELSE options_headers[k]]

\* The option fields other than headers; "None" is an unset field.
OptionFields == {"base_url", "api_version", "timeout"}

UnsetFields == [f \in OptionFields |-> "None"]

ClientFields ==
  [f \in OptionFields |->
     IF f = "base_url" THEN "https://host/"
     ELSE IF f = "api_version" THEN "v1beta" ELSE "None"]

PatchFields ==
  [f \in OptionFields |->
     IF f = "base_url" THEN "https://fake-url.com/"
     ELSE IF f = "api_version" THEN "v1" ELSE "10000"]

HttpOptions(S) == [headers : HeaderMaps, fields : S]

\* _patch_http_options(options, patch_options)
PatchedOptions(opts, patch_options) ==
  [headers |-> AppendLibraryVersionHeaders(
                 MergeHeaders(opts.headers, patch_options.headers)),
   fields |-> [f \in OptionFields |->
                 IF patch_options.fields[f] # "None"
                 THEN patch_options.fields[f] ELSE opts.fields[f]]]

\* No _patch_http_options call yet.
NoPatch == [called |-> FALSE]

PatchInit ==
  /\ options \in HttpOptions({UnsetFields, ClientFields})
  /\ patchBase = NoPatch /\ patchWith = NoPatch

\* _patch_http_options applied to the current option set.
Patch ==
  /\ \E patch_options \in HttpOptions({UnsetFields, PatchFields}) :
       /\ patchBase' = options
       /\ patchWith' = patch_options
       /\ options' = PatchedOptions(options, patch_options)
  /\ UNCHANGED <<baseVars, urlVars, ctorVars, segVars, parseVars>>

NextPatch == Patch

InitPatch ==
  BaseQuiet /\ PatchInit /\ UrlQuiet /\ CtorQuiet /\ SegQuiet /\ ParseQuiet

SpecPatch == InitPatch /\ [][NextPatch]_vars

\* --------------------------------------------------------- URL composition

\* Paths are sequences of segments and "/" separators; a URL is its origin
\* (scheme and host), its path and its query, as urlparse splits it.
Slash == <<"/">>

StartsWith(str, prefix) ==
  Len(str) >= Len(prefix) /\ SubSeq(str, 1, Len(prefix)) = prefix

EndsWith(str, suffix) ==
  /\ Len(str) >= Len(suffix)
  /\ SubSeq(str, Len(str) - Len(suffix) + 1, Len(str)) = suffix

\* No base URL set.
NoUrl == [origin |-> "", path |-> <<>>, query |-> ""]

BaseUrls ==
  { [origin |-> "https://host", path |-> <<"/">>, query |-> ""],
    [origin |-> "https://host", path |-> <<>>, query |-> ""],
    [origin |-> "https://host", path |-> <<"/", "api", "/">>, query |-> "q=1"],
    NoUrl }

\* api_version: <<>> stands for None.
ApiVersions == {<<>>, <<"v1">>}

ResourcePaths ==
  { <<"models", "/", "foo">>,
    <<"/", "models", "/", "foo">>,
    <<"projects", "/", "p", "/", "models">>,
    <<"publishers", "/", "google", "/", "models">>,
    <<"publishers", "/", "google", "/", "models", "/", "foo">> }

HttpMethods == {"get", "post"}

\* _join_url_path(base_url, path)
JoinUrlPath(base_url, path) ==
  LET base_path == IF EndsWith(base_url.path, Slash)
                   THEN SubSeq(base_url.path, 1, Len(base_url.path) - 1)
                   ELSE base_url.path
      rest == IF StartsWith(path, Slash)
              THEN SubSeq(path, 2, Len(path)) ELSE path
  IN  [base_url EXCEPT !.path = base_path \o Slash \o rest]

\* The exemption without the test of the method.
BaseModelsPath(client, http_method, path) ==
  /\ client.vertexai
  /\ StartsWith(path, <<"publishers", "/", "google", "/", "models">>)

\* query_vertex_base_models
QueryVertexBaseModels(client, http_method, path) ==
  /\ client.vertexai
  /\ http_method = "get"
  /\ StartsWith(path, <<"publishers", "/", "google", "/", "models">>)

\* The path after the project and location are put in front of it.
PrefixedPath(client, http_method, path) ==
  IF /\ client.vertexai
     /\ ~StartsWith(path, <<"projects", "/">>)
     /\ ~QueryVertexBaseModels(client, http_method, path)
     /\ ~client.api_key
  THEN <<"projects", "/", "{project}", "/", "locations", "/", "{location}",
         "/">> \o path
  ELSE path

\* versioned_path
VersionedPath(api_version, path) ==
  IF api_version = <<>> THEN Slash \o path ELSE api_version \o Slash \o path

\* The URL part of _build_request: [err, path, url].
BuildRequestUrl(client, http_method, path) ==
  LET full == PrefixedPath(client, http_method, path)
  IN  IF client.base_url = NoUrl
      THEN [err |-> "ValueError", path |-> full, url |-> NoUrl]
      ELSE [err |-> "none", path |-> full,
            url |-> JoinUrlPath(client.base_url,
                                VersionedPath(client.api_version, full))]

NoCall == [called |-> FALSE]

UrlInit ==
  /\ urlClient \in [vertexai : BOOLEAN, api_key : BOOLEAN,
                    base_url : BaseUrls, api_version : ApiVersions]
  /\ urlCall = NoCall /\ urlOut = NoCall

\* _build_request(http_method, path, ...), as far as the URL goes.
BuildUrl ==
  /\ \E http_method \in HttpMethods, path \in ResourcePaths :
       /\ urlCall' = [method |-> http_method, path |-> path]
       /\ urlOut' = BuildRequestUrl(urlClient, http_method, path)
  /\ UNCHANGED <<baseVars, patchVars, urlClient, ctorVars, segVars, parseVars>>

NextUrl == BuildUrl

InitUrl ==
  BaseQuiet /\ PatchQuiet /\ UrlInit /\ CtorQuiet /\ SegQuiet /\ ParseQuiet

SpecUrl == InitUrl /\ [][NextUrl]_vars

\* ------------------------------------------------------ client construction

\* Optional arguments and environment variables: "None" or a value.
IsSet(x) == x # "None"

\* Python's `a or b` on optional strings.
OrElse(a, b) == IF IsSet(a) THEN a ELSE b

\* Arguments of BaseApiClient(...) with the environment it reads.
CtorInputs ==
  [vertexai : {"None", "True", "False"},
   modelgarden : {"None", "True"},
   api_key : {"None", "k"},
   credentials : {"None", "c"},
   project : {"None", "p"},
   location : {"None", "us-central1", "global"},
   http_options : {"None", "invalid"},
   env_vertexai : BOOLEAN,
   env_modelgarden : BOOLEAN,
   env_project : {"None", "ep"},
   env_location : {"None", "el"},
   env_api_key : {"None", "ek"}]

\* Outcomes of google.auth.default in _load_auth: an error, or credentials
\* with or without a project id.
LoadOutcomes == {"DefaultCredentialsError", "None", "lp"}

CtorError(msg) ==
  [err |-> msg, vertexai |-> "None", project |-> "None",
   location |-> "None", api_key |-> "None", credentials |-> "None",
   base_url |-> "None", api_version |-> "None"]

\* No validation of the explicitly set values.
NoConflict(a) == "none"

\* The validation of explicitly set values, without the credentials branch.
ProjectConflict(a) ==
  IF (IsSet(a.project) \/ IsSet(a.location)) /\ IsSet(a.api_key)
  THEN "Project/location and API key are mutually exclusive"
  ELSE "none"

\* The validation of explicitly set initializer values.
ExplicitConflict(a) ==
  IF (IsSet(a.project) \/ IsSet(a.location)) /\ IsSet(a.api_key)
  THEN "Project/location and API key are mutually exclusive"
  ELSE IF IsSet(a.credentials) /\ IsSet(a.api_key)
       THEN "Credentials and API key are mutually exclusive"
       ELSE "none"

\* self.vertexai after the environment and modelgarden are looked at.
UseVertexai(a) ==
  LET mg == a.modelgarden = "True"
              \/ (a.modelgarden = "None" /\ a.env_modelgarden)
  IN  IF mg THEN "True"
      ELSE IF a.vertexai = "None" /\ a.env_vertexai THEN "True"
      ELSE a.vertexai

UseModelgarden(a) ==
  a.modelgarden = "True" \/ (a.modelgarden = "None" /\ a.env_modelgarden)

\* The Vertex AI branch of __init__ once the precedence rules have chosen
\* project p, location l and key k.
VertexClient(a, p, l, k, loaded) ==
  LET load == ~IsSet(p) /\ ~IsSet(k)
      p2 == IF load THEN loaded ELSE p
      c2 == IF load /\ ~IsSet(a.credentials) THEN "loaded"
            ELSE a.credentials
  IN  IF load /\ loaded = "DefaultCredentialsError"
      THEN CtorError("DefaultCredentialsError")
      ELSE IF load /\ loaded = "None"
      THEN CtorError("Could not resolve project")
      ELSE IF ~((IsSet(p2) /\ IsSet(l)) \/ IsSet(k))
      THEN CtorError("Project and location or API key must be set")
      ELSE IF UseModelgarden(a) /\ ~(IsSet(p2) /\ IsSet(l))
      THEN CtorError("Project and location must be set when using ModelGarden")
      ELSE [err |-> "none", vertexai |-> "True", project |-> p2,
            location |-> l, api_key |-> k, credentials |-> c2,
            base_url |-> IF IsSet(k) \/ l = "global"
                         THEN "https://aiplatform.googleapis.com/"
                         ELSE "https://{location}-aiplatform.googleapis.com/",
            api_version |-> IF UseModelgarden(a) THEN "v1" ELSE "v1beta1"]

\* BaseApiClient.__init__(...) with _load_auth giving `loaded` when called.
ClientInit(a, loaded) ==
  LET p0 == OrElse(a.project, a.env_project)
      l0 == OrElse(a.location, a.env_location)
      k0 == OrElse(a.api_key, a.env_api_key)
      envPL == IsSet(a.env_location) \/ IsSet(a.env_project)
  IN  IF ExplicitConflict(a) # "none"
      THEN CtorError(ExplicitConflict(a))
      ELSE IF a.http_options = "invalid"
      THEN CtorError("Invalid http_options")
      ELSE IF UseVertexai(a) = "True"
      THEN IF IsSet(a.credentials)
           THEN VertexClient(a, p0, l0, "None", loaded)
           ELSE IF envPL /\ IsSet(a.api_key)
           THEN VertexClient(a, "None", "None", k0, loaded)
           ELSE IF (IsSet(a.project) \/ IsSet(a.location))
                     /\ IsSet(a.env_api_key)
           THEN VertexClient(a, p0, l0, "None", loaded)
           ELSE IF envPL /\ IsSet(a.env_api_key)
           THEN VertexClient(a, p0, l0, "None", loaded)
           ELSE VertexClient(a, p0, l0, k0, loaded)
      ELSE IF ~IsSet(k0)
           THEN CtorError("Missing key inputs argument")
           ELSE [err |-> "none", vertexai |-> UseVertexai(a),
                 project |-> p0, location |-> l0, api_key |-> k0,
                 credentials |-> a.credentials,
                 base_url |-> "https://generativelanguage.googleapis.com/",
                 api_version |-> "v1beta"]

CtorInit == ctorArgs \in CtorInputs /\ ctorOut = NoCall

\* BaseApiClient(...) is called with the chosen arguments.
Construct ==
  /\ ctorOut = NoCall
  /\ \E loaded \in LoadOutcomes : ctorOut' = ClientInit(ctorArgs, loaded)
  /\ UNCHANGED <<baseVars, patchVars, urlVars, ctorArgs, segVars, parseVars>>

NextCtor == Construct

InitCtor ==
  BaseQuiet /\ PatchQuiet /\ UrlQuiet /\ CtorInit /\ SegQuiet /\ ParseQuiet

SpecCtor == InitCtor /\ [][NextCtor]_vars

\* -------------------------------------------------------- streaming decoder

\* A line is the literal prefix 'data: ' or not, followed by its text.
LineTexts == {"", "{\"a\":1}", "{\"a\":2}", "oops"}

Lines == [prefix : BOOLEAN, text : LineTexts]

\* The texts json.loads accepts; every other text raises JSONDecodeError.
JsonTexts == {"{\"a\":1}", "{\"a\":2}"}

\* json.loads(text) for a text it accepts.
JsonLoads(text) == IF text = "{\"a\":1}" THEN [a |-> 1] ELSE [a |-> 2]

EmptyObject == [a |-> 0]

\* `if chunk`: the line is not the empty string.
NonBlank(chunk) == chunk.prefix \/ chunk.text # ""

\* A chunk handed to json.loads as it is.
WholeChunk(chunk) ==
  IF chunk.prefix THEN [ok |-> FALSE, value |-> EmptyObject]
  ELSE IF chunk.text \in JsonTexts
       THEN [ok |-> TRUE, value |-> JsonLoads(chunk.text)]
       ELSE [ok |-> FALSE, value |-> EmptyObject]

\* json.loads on a line whose prefix is not taken off.
UnstrippedChunk(chunk) == WholeChunk(chunk)

\* chunk[len('data: '):] when chunk.startswith('data: '), then json.loads.
StrippedChunk(chunk) ==
  IF chunk.text \in JsonTexts
  THEN [ok |-> TRUE, value |-> JsonLoads(chunk.text)]
  ELSE [ok |-> FALSE, value |-> EmptyObject]

SeqsUpTo(S, n) == UNION {[1..k -> S] : k \in 0..n}

SegInit ==
  /\ segMode \in {"list", "None", "lines", "other"}
  /\ segAsync \in BOOLEAN
  /\ segLines \in SeqsUpTo(Lines, MaxLines)
  /\ segPos = 0 /\ segOut = <<>> /\ segErr = ""

SegFrame ==
  UNCHANGED <<baseVars, patchVars, urlVars, ctorVars, parseVars, segMode,
              segAsync, segLines>>

\* The generator takes the next chunk of a list response.
SegmentList ==
  /\ segMode = "list" /\ segErr = "" /\ segPos < Len(segLines)
  /\ segPos' = segPos + 1
  /\ LET chunk == segLines[segPos + 1]
     IN  IF ~NonBlank(chunk)
         THEN segOut' = Append(segOut, EmptyObject) /\ segErr' = ""
         ELSE IF WholeChunk(chunk).ok
         THEN segOut' = Append(segOut, WholeChunk(chunk).value)
                /\ segErr' = ""
         ELSE segOut' = segOut /\ segErr' = "JSONDecodeError"
  /\ SegFrame

\* The generator takes the next line of a streamed response.
SegmentLine ==
  /\ segMode = "lines" /\ segErr = "" /\ segPos < Len(segLines)
  /\ segPos' = segPos + 1
  /\ LET chunk == segLines[segPos + 1]
     IN  IF ~NonBlank(chunk)
         THEN segOut' = segOut /\ segErr' = ""
         ELSE IF StrippedChunk(chunk).ok
         THEN segOut' = Append(segOut, StrippedChunk(chunk).value)
                /\ segErr' = ""
         ELSE segOut' = segOut /\ segErr' = "JSONDecodeError"
  /\ SegFrame

\* A response_stream that is neither a list, None nor an httpx response:
\* segments fails on iter_lines, async_segments raises ValueError.
SegmentOther ==
  /\ segMode = "other" /\ segErr = ""
  /\ segErr' = IF segAsync THEN "ValueError" ELSE "AttributeError"
  /\ UNCHANGED <<segPos, segOut>>
  /\ SegFrame

NextSeg == SegmentList \/ SegmentLine \/ SegmentOther

InitSeg ==
  BaseQuiet /\ PatchQuiet /\ UrlQuiet /\ CtorQuiet /\ SegInit /\ ParseQuiet

SpecSeg == InitSeg /\ [][NextSeg]_vars

\* ------------------------------------------- sequences given to the encoder

\* Elements of a sequence given to _parse_client_message, as [type, id]: a
\* str, a types.Part, a types.Blob, a dict with 'data', a dict with 'name'
\* and 'response' (with and without 'id'), a types.FunctionResponse, a dict
\* of another shape, and a number.
Elements ==
  { [type |-> "str", id |-> 0, text |-> "hi"],
    [type |-> "Part", id |-> 0],
    [type |-> "Blob", id |-> 0],
    [type |-> "BlobDict", id |-> 0],
    [type |-> "FunctionResponseDict", id |-> 0],
    [type |-> "FunctionResponseDict", id |-> 1],
    [type |-> "FunctionResponse", id |-> 1],
    [type |-> "dict", id |-> 0],
    [type |-> "int", id |-> 0] }

\* isinstance(c, dict)
IsDict(c) == c.type \in {"BlobDict", "FunctionResponseDict", "dict"}

\* isinstance(c, dict) and 'name' in c and 'response' in c
IsResponseDict(c) == c.type = "FunctionResponseDict"

\* isinstance(item, get_args(types.PartUnion))
IsPartUnion(item) == item.type \in {"str", "Part"}

\* The objects that have model_dump.
IsModel(b) == b.type \in {"Part", "Blob", "FunctionResponse"}

AnyItem(items, P(_)) == \E i \in 1..Len(items) : P(items[i])

IsStr(c) == c.type = "str"
IsBlobDict(b) == b.type = "BlobDict"
IsBlob(b) == b.type = "Blob"

ParseError(e) ==
  [err |-> e, key |-> "none", turn_complete |-> FALSE, body |-> <<>>]

\* ValueError(_FUNCTION_RESPONSE_REQUIRES_ID)
RequiresId == "FunctionResponse request must have an id field"

\* types.FunctionResponse(**item) and the id test on one dict item: the
\* error it raises, or "". validates tells whether pydantic accepts a dict
\* that is not shaped like a FunctionResponse (it then has no id).
ResponseItemError(item, vx, validates) ==
  IF IsResponseDict(item)
  THEN IF ~vx /\ item.id = 0 THEN RequiresId ELSE ""
  ELSE IF ~validates THEN "ValueError"
       ELSE IF ~vx THEN RequiresId ELSE ""

\* The error of the first dict item that raises, or "".
FirstItemError(dicts, vx, validates) ==
  LET bad == {i \in 1..Len(dicts) :
                ResponseItemError(dicts[i], vx, validates) # ""}
  IN  IF bad = {} THEN ""
      ELSE ResponseItemError(dicts[CHOOSE i \in bad : \A j \in bad : i <= j],
                             vx, validates)

\* A text part that loses the string.
TPartBlank(item) == IF IsStr(item) THEN [text |-> ""] ELSE item

\* t_part: a str becomes Part(text=...), a Part stays.
TPart(item) == IF IsStr(item) THEN [text |-> item.text] ELSE item

\* The branches of _parse_client_message a non-str sequence goes through
\* (692-790): [err, key, turn_complete, body], body being the function
\* responses, the turns or the media chunks of the message.
ParseSequence(items, end_of_turn, vx, validates) ==
  IF items = <<>>
  THEN [err |-> "", key |-> "client_content", turn_complete |-> TRUE,
        body |-> <<>>]
  ELSE IF AnyItem(items, IsResponseDict)
  THEN LET dicts == SelectSeq(items, IsDict)
       IN  IF FirstItemError(dicts, vx, validates) # ""
           THEN ParseError(FirstItemError(dicts, vx, validates))
           ELSE [err |-> "", key |-> "tool_response",
                 turn_complete |-> FALSE,
                 body |-> [i \in 1..Len(dicts) |->
                             [function_response |-> dicts[i]]]]
  ELSE IF AnyItem(items, IsStr)
  THEN LET content_input_parts == SelectSeq(items, IsPartUnion)
       IN  [err |-> "", key |-> "client_content",
            turn_complete |-> end_of_turn,
            body |-> [i \in 1..Len(content_input_parts) |->
                        [role |-> "user",
                         parts |-> <<TPart(content_input_parts[i])>>]]]
  ELSE IF AnyItem(items, IsBlobDict)
  THEN [err |-> "", key |-> "realtime_input", turn_complete |-> FALSE,
        body |-> [i \in 1..Len(items) |-> [chunk |-> items[i]]]]
  ELSE IF AnyItem(items, IsBlob)
  THEN IF \E i \in 1..Len(items) : ~IsModel(items[i])
       THEN ParseError("AttributeError")
       ELSE [err |-> "", key |-> "realtime_input", turn_complete |-> FALSE,
             body |-> [i \in 1..Len(items) |-> [chunk |-> items[i]]]]
  ELSE ParseError("ValueError")

\* Ids of the function responses a tool-response object or mapping holds;
\* 0 is a response without id.
IdLists == SeqsUpTo({0, 1}, MaxItems)

\* Inputs of _parse_client_message that are not lists, as [type, id, text,
\* ids]: None, strings, a dict with 'name' and 'response', a
\* types.FunctionResponse, a types.Blob, a dict with 'data', a
\* types.LiveClientToolResponse and its mapping form, a mapping with
\* 'turns', a types.LiveClientContent, a mapping with 'media_chunks', a
\* types.LiveClientRealtimeInput, a dict of another shape and a number.
ScalarInputs ==
  [type : {"None", "Blob", "BlobDict", "LiveClientContentDict",
           "LiveClientContent", "LiveClientRealtimeInputDict",
           "LiveClientRealtimeInput", "dict", "int"},
   id : {0}, text : {""}, ids : {<<>>}]
    \cup [type : {"str"}, id : {0}, text : {"", "hi"}, ids : {<<>>}]
    \cup [type : {"FunctionResponseDict", "FunctionResponse"},
          id : {0, 1}, text : {""}, ids : {<<>>}]
    \cup [type : {"LiveClientToolResponse", "LiveClientToolResponseDict"},
          id : {0}, text : {""}, ids : IdLists]

NoScalar == [type |-> "list", id |-> 0, text |-> "", ids |-> <<>>]

\* The element a scalar input is when it is wrapped into a list.
AsElement(input) ==
  IF input.type = "str"
  THEN [type |-> "str", id |-> 0, text |-> input.text]
  ELSE [type |-> input.type, id |-> input.id]

\* function_responses as model_dump gives them.
DumpedResponses(ids) ==
  [i \in 1..Len(ids) |->
     [function_response |-> [type |-> "FunctionResponseDict", id |-> ids[i]]]]

ToolResponseOf(ids) ==
  [err |-> "", key |-> "tool_response", turn_complete |-> FALSE,
   body |-> DumpedResponses(ids)]

\* _parse_client_message on an input that is not a list.
ParseScalar(input, end_of_turn, vx, validates) ==
  IF input.type = "None" \/ (input.type = "str" /\ input.text = "")
  THEN [err |-> "", key |-> "client_content", turn_complete |-> TRUE,
        body |-> <<>>]
  ELSE IF input.type \in {"str", "Blob"}
  THEN ParseSequence(<<AsElement(input)>>, end_of_turn, vx, validates)
  ELSE IF input.type = "BlobDict"
  THEN IF ~validates THEN ParseError("ValueError")
       ELSE ParseSequence(<<AsElement(input)>>, end_of_turn, vx, validates)
  ELSE IF input.type = "FunctionResponseDict"
  THEN IF ~vx /\ input.id = 0 THEN ParseError(RequiresId)
       ELSE ParseSequence(<<AsElement(input)>>, end_of_turn, vx, validates)
  ELSE IF input.type = "LiveClientContentDict"
  THEN [err |-> "", key |-> "client_content", turn_complete |-> FALSE,
        body |-> <<[turns |-> "as given"]>>]
  ELSE IF input.type = "LiveClientRealtimeInputDict"
  THEN IF ~validates THEN ParseError("ValueError")
       ELSE [err |-> "", key |-> "realtime_input", turn_complete |-> FALSE,
             body |-> <<[media_chunks |-> "dumped"]>>]
  ELSE IF input.type = "LiveClientToolResponseDict"
  THEN IF ~validates THEN ParseError("ValueError")
       ELSE ToolResponseOf(input.ids)
  ELSE IF input.type = "dict"
  THEN ParseError("ValueError")
  ELSE IF input.type = "LiveClientRealtimeInput"
  THEN [err |-> "", key |-> "realtime_input", turn_complete |-> FALSE,
        body |-> <<[media_chunks |-> "dumped"]>>]
  ELSE IF input.type = "LiveClientContent"
  THEN [err |-> "", key |-> "client_content", turn_complete |-> FALSE,
        body |-> <<[turns |-> "dumped"]>>]
  ELSE IF input.type = "LiveClientToolResponse"
  THEN IF ~vx /\ input.ids = <<>> THEN ParseError("IndexError")
       ELSE IF ~vx /\ input.ids[1] = 0 THEN ParseError(RequiresId)
       ELSE ToolResponseOf(input.ids)
  ELSE IF input.type = "FunctionResponse"
  THEN IF ~vx /\ input.id = 0 THEN ParseError(RequiresId)
       ELSE ToolResponseOf(<<input.id>>)
  ELSE ParseError("ValueError")

ParseInit == parseIn = NoCall /\ parseOut = NoCall

\* _parse_client_message(input, end_of_turn) on a list.
ParseCall ==
  /\ parseOut = NoCall
  /\ \E items \in SeqsUpTo(Elements, MaxItems), end_of_turn \in BOOLEAN,
        vx \in BOOLEAN, validates \in BOOLEAN :
       /\ parseIn' = [input |-> items, scalar |-> NoScalar,
                      end_of_turn |-> end_of_turn, vertexai |-> vx]
       /\ parseOut' = ParseSequence(items, end_of_turn, vx, validates)
  /\ UNCHANGED <<baseVars, patchVars, urlVars, ctorVars, segVars>>

\* _parse_client_message(input, end_of_turn) on an input that is not a list.
ParseScalarCall ==
  /\ parseOut = NoCall
  /\ \E input \in ScalarInputs, end_of_turn \in BOOLEAN,
        vx \in BOOLEAN, validates \in BOOLEAN :
       /\ parseIn' = [input |-> <<>>, scalar |-> input,
                      end_of_turn |-> end_of_turn, vertexai |-> vx]
       /\ parseOut' = ParseScalar(input, end_of_turn, vx, validates)
  /\ UNCHANGED <<baseVars, patchVars, urlVars, ctorVars, segVars>>

NextParse == ParseCall \/ ParseScalarCall

InitParse ==
  BaseQuiet /\ PatchQuiet /\ UrlQuiet /\ CtorQuiet /\ SegQuiet /\ ParseInit

SpecParse == InitParse /\ [][NextParse]_vars

\* ------------------------------------------------------ payload transformers

\* State outside the payload transformers.
nonXfVars == <<liveVars, uploadVars, pollVars, reqVars, patchVars, urlVars,
               ctorVars, segVars, parseVars>>

NonXfQuiet ==
  /\ LiveQuiet /\ UploadQuiet /\ PollQuiet /\ ReqQuiet
  /\ PatchQuiet /\ UrlQuiet /\ CtorQuiet /\ SegQuiet /\ ParseQuiet

\* Resource names, as segments and "/" separators.
ResourceNames ==
  { <<"123">>,
    <<"cachedContents", "/", "123">>,
    <<"a", "/", "b">>,
    <<"locations", "/", "l", "/", "cachedContents", "/", "123">>,
    <<"projects", "/">>,
    <<"projects", "/", "p">>,
    <<"projects", "/", "p", "/", "x">>,
    <<"projects", "/", "p", "/", "locations", "/", "l", "/",
      "cachedContents", "/", "123">> }

CollectionIdentifiers == {"cachedContents", "projects", "users"}

\* collection_hierarchy_depth; 2 is the default.
HierarchyDepths == 2..6

\* str.count('/')
CountSlashes(str) == Cardinality({i \in 1..Len(str) : str[i] = "/"})

\* should_prepend_collection_identifier without the depth test.
ShouldPrependAnyDepth(resource_name, collection_identifier, depth) ==
  ~StartsWith(resource_name, <<collection_identifier, "/">>)

\* should_prepend_collection_identifier
ShouldPrepend(resource_name, collection_identifier, depth) ==
  /\ ~StartsWith(resource_name, <<collection_identifier, "/">>)
  /\ CountSlashes(<<collection_identifier, "/">> \o resource_name) + 1
        = depth

\* _resource_name(client, resource_name, collection_identifier=...,
\* collection_hierarchy_depth=...)
ResourceName(vx, resource_name, collection_identifier, depth) ==
  IF vx
  THEN IF StartsWith(resource_name, <<"projects", "/">>)
       THEN resource_name
       ELSE IF StartsWith(resource_name, <<"locations", "/">>)
       THEN <<"projects", "/", "{project}", "/">> \o resource_name
       ELSE IF StartsWith(resource_name, <<collection_identifier, "/">>)
       THEN <<"projects", "/", "{project}", "/", "locations", "/",
              "{location}", "/">> \o resource_name
       ELSE IF ShouldPrepend(resource_name, collection_identifier, depth)
       THEN <<"projects", "/", "{project}", "/", "locations", "/",
              "{location}", "/", collection_identifier, "/">>
               \o resource_name
       ELSE resource_name
  ELSE IF ShouldPrepend(resource_name, collection_identifier, depth)
       THEN <<collection_identifier, "/">> \o resource_name
       ELSE resource_name

NameInit == nameIn = NoCall /\ nameOut = NoCall

\* One call of _resource_name.
ResourceNameCall ==
  /\ nameIn = NoCall
  /\ \E vx \in BOOLEAN, resource_name \in ResourceNames,
        collection_identifier \in CollectionIdentifiers,
        depth \in HierarchyDepths :
       /\ nameIn' = [vertexai |-> vx, resource_name |-> resource_name,
                     collection_identifier |-> collection_identifier,
                     collection_hierarchy_depth |-> depth]
       /\ nameOut' = [name |-> ResourceName(vx, resource_name,
                                            collection_identifier, depth)]
  /\ UNCHANGED <<nonXfVars, schemaIn, schemaOut>>

NextName == ResourceNameCall

InitName ==
  NonXfQuiet /\ NameInit /\ schemaIn = "none" /\ schemaOut = "none"

SpecName == InitName /\ [][NextName]_vars

\* Schemas are trees: a leaf, a dict from keys to schemas, or a list.
SchemaKeys == {"title", "properties"}

Leaf == [kind |-> "leaf"]

DictsOver(V) ==
  {[kind |-> "dict", entries |-> f] :
      f \in UNION {[S -> V] : S \in SUBSET SchemaKeys}}

ListsOver(V) == {[kind |-> "list", elems |-> <<v>>] : v \in V}

InnerSchemas == {Leaf} \cup DictsOver({Leaf}) \cup ListsOver(DictsOver({Leaf}))

Schemas == DictsOver(InnerSchemas)

\* The clients process_schema is given: None, a Gemini API client, a Vertex
\* AI client.
SchemaClients == {"None", "mldev", "vertex"}

\* A normalizer that deletes 'title' from the outermost dict only.
ProcessSchemaShallow(data, client) ==
  IF data.kind = "dict" /\ client = "mldev"
  THEN [kind |-> "dict",
        entries |-> [k \in DOMAIN data.entries \ {"title"} |->
                       data.entries[k]]]
  ELSE data

\* process_schema(data, client)
RECURSIVE ProcessSchema(_, _)
ProcessSchema(data, client) ==
  IF data.kind = "dict"
  THEN LET kept == IF client = "mldev"
                   THEN DOMAIN data.entries \ {"title"}
                   ELSE DOMAIN data.entries
       IN  [kind |-> "dict",
            entries |-> [k \in kept |->
                           ProcessSchema(data.entries[k], client)]]
  ELSE IF data.kind = "list"
  THEN [kind |-> "list",
        elems |-> [i \in 1..Len(data.elems) |->
                     ProcessSchema(data.elems[i], client)]]
  ELSE data

SchemaInit == schemaIn = NoCall /\ schemaOut = NoCall

\* process_schema on a schema, and again on what it returned.
ProcessSchemaCall ==
  /\ schemaIn = NoCall
  /\ \E data \in Schemas, client \in SchemaClients :
       /\ schemaIn' = [data |-> data, client |-> client]
       /\ schemaOut' =
            [once |-> ProcessSchema(data, client),
             twice |-> ProcessSchema(ProcessSchema(data, client), client)]
  /\ UNCHANGED <<nonXfVars, nameIn, nameOut>>

NextSchema == ProcessSchemaCall

InitSchema ==
  NonXfQuiet /\ SchemaInit /\ nameIn = "none" /\ nameOut = "none"

SpecSchema == InitSchema /\ [][NextSchema]_vars

\* --------------------------------------------------------- envelope claims

\* Headers that are only ever added while a request is sent.
PerRequestHeaders == {"Authorization", "x-goog-user-project"}

\* C20: every request built by _build_request has its own header map: the
\* headers added while a request is sent (Authorization, quota project)
\* appear neither in the client's default options nor in a request that has
\* not been sent itself.
C20_OwnHeaderMap ==
  /\ heap[1] \cap PerRequestHeaders = {}
  /\ \A i \in 1..Len(reqs) :
       ~reqs[i].sent => heap[reqs[i].ref] \cap PerRequestHeaders = {}

\* A send that got past _access_token.
Sends == {i \in 1..Len(reqs) : reqs[i].sent /\ reqs[i].how # "AuthError"}

\* C21: _request adds the Authorization header (and the quota-project
\* header when the credential has a quota project) exactly when the client
\* uses bearer authentication (Vertex AI without API key); otherwise the
\* headers after the send are the headers before it and _access_token is
\* not called.
C21_AuthHeadersIffBearer ==
  \A i \in Sends :
     IF bearer
     THEN /\ "Authorization" \in reqs[i].after
          /\ quotaProject => "x-goog-user-project" \in reqs[i].after
          /\ reqs[i].after \ reqs[i].before
                \subseteq {"Authorization"} \cup
                   (IF quotaProject THEN {"x-goog-user-project"} ELSE {})
     ELSE /\ reqs[i].after = reqs[i].before
          /\ ~reqs[i].token

C21_Witness ==
  /\ bearer /\ quotaProject
  /\ \E i \in Sends :
       reqs[i].after \ reqs[i].before
          = {"Authorization", "x-goog-user-project"}

\* C22: _request transmits a non-empty bytes body unchanged and a non-empty
\* structured body as its JSON text, with bearer authentication and without.
C22_BodyTransmitted ==
  \A i \in Sends :
     Truthy(reqs[i].body) =>
       /\ reqs[i].how = "ok"
       /\ reqs[i].content = IF reqs[i].body.kind = "bytes"
                            THEN reqs[i].body
                            ELSE JsonDumps(reqs[i].body)

\* ------------------------------------------------------ option patch claims

\* The headers of the last patch before the library tokens are appended.
Merged == MergeHeaders(patchBase.headers, patchWith.headers)

\* C23 as stated: the patched headers hold every key of both maps, with the
\* override's value on keys of the override and the base's value on keys only
\* the base has.
C23_MergedHeaders ==
  patchWith # NoPatch =>
    \A k \in DOMAIN patchBase.headers \cup DOMAIN patchWith.headers :
       /\ k \in DOMAIN options.headers
       /\ options.headers[k] = IF k \in DOMAIN patchWith.headers
                               THEN patchWith.headers[k]
                               ELSE patchBase.headers[k]

\* C23: the patched headers hold every key of both maps; on every key other
\* than user-agent and x-goog-api-client the value is the override's when the
\* override has the key and the base's otherwise; on those two keys the value
\* is that merged value, followed by the library token when the merged value
\* does not contain it.
C23_MergedHeadersThenToken ==
  patchWith # NoPatch =>
    \A k \in DOMAIN patchBase.headers \cup DOMAIN patchWith.headers :
       LET merged == IF k \in DOMAIN patchWith.headers
                     THEN patchWith.headers[k]
                     ELSE patchBase.headers[k]
       IN  /\ k \in DOMAIN options.headers
           /\ k \notin IdKeys => options.headers[k] = merged
           /\ k \in IdKeys =>
                options.headers[k] =
                   IF Contains(merged, VersionHeaderValue)
                   THEN merged ELSE merged \o VersionHeaderValue

C23_Witness ==
  /\ patchWith # NoPatch
  /\ DOMAIN patchBase.headers = {"X-Custom-Header", "x-goog-api-client"}
  /\ DOMAIN patchWith.headers = {"X-Custom-Header", "user-agent"}
  /\ patchBase.headers["X-Custom-Header"] = <<"different_value">>
  /\ patchWith.headers["X-Custom-Header"] = <<"custom_value">>
  /\ patchWith.headers["user-agent"] = <<"my-app">>
  /\ options.headers["X-Custom-Header"] = <<"custom_value">>
  /\ options.headers["user-agent"] = <<"my-app">> \o VersionHeaderValue

UrlBuilt == urlOut # NoCall /\ urlOut.err = "none"

StripTrailingSlash(str) ==
  IF EndsWith(str, Slash) THEN SubSeq(str, 1, Len(str) - 1) ELSE str

StripLeadingSlash(str) ==
  IF StartsWith(str, Slash) THEN SubSeq(str, 2, Len(str)) ELSE str

\* C25: the URL is the base URL without its trailing slash, then
\* /apiVersion when there is one, then / and the resource path without its
\* leading slash; origin and query are those of the base URL.
C25_UrlComposed ==
  UrlBuilt =>
    /\ urlOut.url.origin = urlClient.base_url.origin
    /\ urlOut.url.query = urlClient.base_url.query
    /\ urlOut.url.path =
         StripTrailingSlash(urlClient.base_url.path)
            \o (IF urlClient.api_version = <<>>
                THEN <<>> ELSE Slash \o urlClient.api_version)
            \o Slash \o StripLeadingSlash(urlOut.path)

ExclusiveErrors ==
  {"Project/location and API key are mutually exclusive",
   "Credentials and API key are mutually exclusive"}

\* C27: a constructor call with an explicit API key and an explicit project
\* or location, or with an explicit API key and explicit credentials, fails
\* with the mutual-exclusivity error, whatever vertexai, modelgarden and the
\* environment are.
C27_ExclusiveArguments ==
  ctorOut # NoCall =>
    ((/\ IsSet(ctorArgs.api_key)
      /\ \/ IsSet(ctorArgs.project)
         \/ IsSet(ctorArgs.location)
         \/ IsSet(ctorArgs.credentials))
       => ctorOut.err \in ExclusiveErrors)

C27_Witness ==
  /\ ctorOut # NoCall
  /\ ctorArgs.vertexai = "True"
  /\ IsSet(ctorArgs.api_key) /\ IsSet(ctorArgs.credentials)
  /\ ~IsSet(ctorArgs.project) /\ ~IsSet(ctorArgs.location)
  /\ ctorOut.err = "Credentials and API key are mutually exclusive"

\* ---------------------------------------------------------- decoder claims

\* The lines of a streamed response taken so far, before the one that failed.
Decoded ==
  SubSeq(segLines, 1, IF segErr = "" THEN segPos ELSE segPos - 1)

RECURSIVE ValuesOf(_)
ValuesOf(lines) ==
  IF lines = <<>> THEN <<>>
  ELSE LET rest == ValuesOf(Tail(lines))
       IN  IF NonBlank(Head(lines))
           THEN <<JsonLoads(Head(lines).text)>> \o rest
           ELSE rest

\* C28: on a streamed response the values yielded are the JSON values of the
\* non-blank lines taken so far, in order, with the prefix 'data: ' left
\* out; the generator fails only on a non-blank line whose text is not JSON.
C28_OneValuePerLine ==
  segMode = "lines" =>
    /\ \A i \in 1..Len(Decoded) :
          NonBlank(Decoded[i]) => Decoded[i].text \in JsonTexts
    /\ segOut = ValuesOf(Decoded)
    /\ segErr # "" =>
          /\ segErr = "JSONDecodeError"
          /\ NonBlank(segLines[segPos])
          /\ segLines[segPos].text \notin JsonTexts

C28_Witness ==
  /\ segMode = "lines" /\ segErr = "" /\ segPos = Len(segLines)
  /\ segLines = << [prefix |-> TRUE, text |-> "{\"a\":1}"],
                   [prefix |-> FALSE, text |-> ""],
                   [prefix |-> TRUE, text |-> "{\"a\":2}"] >>
  /\ segOut = << [a |-> 1], [a |-> 2] >>

\* ---------------------------------------------------------- encoder claims

\* A call on a non-empty list that returned a message.
Parsed == parseOut # NoCall /\ parseIn.input # <<>> /\ parseOut.err = ""

\* An element shaped like a tool response: the mapping or the typed object.
ToolShaped(c) == c.type \in {"FunctionResponseDict", "FunctionResponse"}

\* C29: a message returned for a sequence is a tool_response when any
\* element is tool-response-shaped, otherwise a client_content when any
\* element is a string, otherwise a realtime_input.
C29_ClassifiedInOrder ==
  Parsed =>
    parseOut.key = IF AnyItem(parseIn.input, ToolShaped)
                   THEN "tool_response"
                   ELSE IF AnyItem(parseIn.input, IsStr)
                        THEN "client_content"
                        ELSE "realtime_input"

\* The class an element belongs to.
ClassOf(c) ==
  IF ToolShaped(c) THEN "tool"
  ELSE IF c.type \in {"str", "Part"} THEN "text"
  ELSE IF c.type \in {"Blob", "BlobDict"} THEN "media"
  ELSE "other"

Mixed(items) ==
  \E i, j \in 1..Len(items) : ClassOf(items[i]) # ClassOf(items[j])

\* C30: no message is returned for a mixed sequence, and a returned message
\* holds one entry for every element of the sequence.
C30_MixedRejected ==
  Parsed =>
    /\ ~Mixed(parseIn.input)
    /\ Len(parseOut.body) = Len(parseIn.input)

\* A call that returned a message.
Returned31 == parseOut # NoCall /\ parseOut.err = ""

\* The ids a tool-response input carries, list or not.
InputIds ==
  IF parseIn.scalar = NoScalar
  THEN [i \in 1..Len(SelectSeq(parseIn.input, ToolShaped)) |->
          SelectSeq(parseIn.input, ToolShaped)[i].id]
  ELSE IF parseIn.scalar.type \in {"FunctionResponseDict", "FunctionResponse"}
  THEN <<parseIn.scalar.id>>
  ELSE parseIn.scalar.ids

\* C31: without Vertex AI no returned tool_response message holds a function
\* response without an id, and a tool-response input in which a function
\* response lacks an id does not return.
C31_IdRequired ==
  (Returned31 /\ ~parseIn.vertexai) =>
     /\ parseOut.key = "tool_response" =>
          \A i \in 1..Len(parseOut.body) :
             parseOut.body[i].function_response.id # 0
     /\ \A i \in 1..Len(InputIds) : InputIds[i] # 0

\* C32: a non-empty string gives client_content with one user turn of one
\* text part equal to the string and turn_complete equal to end_of_turn; an
\* empty string or None gives client_content with turn_complete true and no
\* turns.
C32_StringIsOneTurn ==
  (parseOut # NoCall /\ parseIn.scalar.type \in {"str", "None"}) =>
     parseOut =
        IF parseIn.scalar.type = "str" /\ parseIn.scalar.text # ""
        THEN [err |-> "", key |-> "client_content",
              turn_complete |-> parseIn.end_of_turn,
              body |-> <<[role |-> "user",
                          parts |-> <<[text |-> parseIn.scalar.text]>>]>>]
        ELSE [err |-> "", key |-> "client_content", turn_complete |-> TRUE,
              body |-> <<>>]

C32_Witness ==
  /\ parseOut # NoCall
  /\ parseIn.scalar.type = "str" /\ parseIn.scalar.text = "hi"
  /\ parseIn.end_of_turn
  /\ parseOut.key = "client_content" /\ parseOut.turn_complete
  /\ Len(parseOut.body) = 1

\* -------------------------------------------------------- transformer claims

QualifiedCall ==
  /\ nameOut # NoCall
  /\ StartsWith(nameIn.resource_name, <<"projects", "/">>)

\* C33 as stated: a name that starts with projects/ is returned unchanged
\* for every personality, collection identifier and hierarchy depth.
C33_QualifiedUnchanged ==
  QualifiedCall => nameOut.name = nameIn.resource_name

\* C33: a name that starts with projects/ is returned unchanged with Vertex
\* AI for every collection identifier and hierarchy depth, and without
\* Vertex AI unless the name does not start with the collection identifier
\* and collection_identifier/name has exactly collection_hierarchy_depth
\* segments, which cannot happen for the default depth 2.
C33_QualifiedUnchangedUnlessDepthFits ==
  QualifiedCall =>
    /\ (\/ nameIn.vertexai
        \/ nameIn.collection_hierarchy_depth = 2
        \/ StartsWith(nameIn.resource_name,
                      <<nameIn.collection_identifier, "/">>)
        \/ CountSlashes(nameIn.resource_name) + 2
              # nameIn.collection_hierarchy_depth)
         => nameOut.name = nameIn.resource_name
    /\ nameOut.name # nameIn.resource_name
         => nameOut.name = <<nameIn.collection_identifier, "/">>
                              \o nameIn.resource_name

C33_Witness ==
  /\ QualifiedCall
  /\ nameIn.vertexai
  /\ nameIn.collection_hierarchy_depth = 3
  /\ nameIn.collection_identifier = "cachedContents"
  /\ nameIn.resource_name = <<"projects", "/", "p">>
  /\ nameOut.name = nameIn.resource_name

RECURSIVE HasTitle(_)
HasTitle(data) ==
  IF data.kind = "dict"
  THEN \/ "title" \in DOMAIN data.entries
       \/ \E k \in DOMAIN data.entries : HasTitle(data.entries[k])
  ELSE IF data.kind = "list"
  THEN \E i \in 1..Len(data.elems) : HasTitle(data.elems[i])
  ELSE FALSE

\* C34: process_schema applied to its own output returns that output; for a
\* Gemini API client the output holds no 'title' key at any depth; for a
\* Vertex AI client the output is the input.
C34_Idempotent ==
  schemaOut # NoCall =>
    /\ schemaOut.twice = schemaOut.once
    /\ schemaIn.client = "mldev" => ~HasTitle(schemaOut.once)
    /\ schemaIn.client = "vertex" => schemaOut.once = schemaIn.data

C34_Witness ==
  /\ schemaOut # NoCall
  /\ schemaIn.client = "mldev"
  /\ "properties" \in DOMAIN schemaIn.data.entries
  /\ HasTitle(schemaIn.data.entries["properties"])
  /\ "title" \in DOMAIN schemaIn.data.entries
  /\ schemaOut.once # schemaIn.data
  /\ ~HasTitle(schemaOut.once)

\* ----------------------------------------------------- late session claims

RECURSIVE YieldedBy(_)
\* The messages the first k receive() calls yielded, one after the other.
YieldedBy(k) == IF k = 0 THEN <<>> ELSE YieldedBy(k - 1) \o calls[k].msgs

\* The frames read from the socket so far.
ConsumedFrames == SubSeq(serverLog, 1, Consumed)

DecodableFrames == SelectSeq(ConsumedFrames, LAMBDA f : f.kind # "garbage")

\* C38 as stated: the messages yielded by the receive() calls, one call after
\* the other, are the frames read from the server, in order.
C38_AllFramesYielded ==
  mode = "receive" =>
    LET ys == YieldedBy(Len(calls)) IN
      /\ Len(ys) = Consumed
      /\ \A i \in 1..Len(ys) : ys[i].id = serverLog[i].id

\* C38: the messages yielded by the receive() calls, one call after the
\* other, are the decoded frames read from the server, in order and each
\* once, except the frames that are not JSON: each of those ends its call
\* with ValueError and is yielded by no call.
C38_DecodableFramesYielded ==
  mode = "receive" =>
    LET ys == YieldedBy(Len(calls)) IN
      /\ Len(ys) = Len(DecodableFrames)
      /\ \A i \in 1..Len(ys) : ys[i] = Decode(DecodableFrames[i], vertexai)
      /\ Cardinality({k \in 1..Len(calls) : calls[k].how = "ValueError"})
            = Consumed - Len(DecodableFrames)

\* Two calls delivered three frames around a turn boundary and a frame that
\* is not JSON was read in between.
C38_Witness ==
  /\ mode = "receive"
  /\ Len(calls) = 2
  /\ calls[1].how = "ValueError" /\ Len(calls[1].msgs) = 1
  /\ Len(calls[2].msgs) = 1 /\ calls[2].how = "ended"
  /\ Consumed = 3
  /\ YieldedBy(2) = <<Decode(serverLog[1], vertexai),
                      Decode(serverLog[3], vertexai)>>

\* C39: once a send of the send loop has failed, the start_stream generator
\* ends or raises, although stop_event is never set.
C39_SendFailureEndsStream ==
  sendTask = "failed" ~> (StreamOver /\ ~stopEvent)

\* The send loop died on a lost connection, stop_event was never set and the
\* generator ended on the receive task's ConnectionClosed.
C39_Witness ==
  /\ sendTask = "failed" /\ ~stopEvent
  /\ gpc = "ended" /\ recvTask = "failed"
  /\ recvVal.err = "ConnectionClosed"
  /\ Len(yielded) >= 1

\* ------------------------------------------------- late constructor claims

\* C40: a successfully constructed Vertex AI client never has both an API
\* key and a project or location, and every successfully constructed client
\* has an API key or both project and location.
C40_KeyOrProject ==
  (ctorOut # NoCall /\ ctorOut.err = "none") =>
    /\ ctorOut.vertexai = "True" =>
          ~(IsSet(ctorOut.api_key)
             /\ (IsSet(ctorOut.project) \/ IsSet(ctorOut.location)))
    /\ \/ IsSet(ctorOut.api_key)
       \/ IsSet(ctorOut.project) /\ IsSet(ctorOut.location)

\* The environment gave a project, a location and an API key, and the client
\* kept the project and location only.
C40_Witness ==
  /\ ctorOut # NoCall /\ ctorOut.err = "none" /\ ctorOut.vertexai = "True"
  /\ IsSet(ctorArgs.env_api_key) /\ IsSet(ctorArgs.env_project)
  /\ IsSet(ctorArgs.env_location)
  /\ ~IsSet(ctorArgs.api_key) /\ ~IsSet(ctorArgs.credentials)
  /\ ~IsSet(ctorOut.api_key)
  /\ IsSet(ctorOut.project) /\ IsSet(ctorOut.location)

====
